---- MODULE Spec2Model ----
(***************************************************************************)
(* A model of the message-media rendering pipeline of the desktop client:  *)
(*   - HistoryView::Photo     (src/unnamed/part_001)                        *)
(*   - HistoryView::Document  (history/view/media/history_view_document.cpp)*)
(*   - ChatHelpers::StickersListFooter (chat_helpers/stickers_list_footer)  *)
(* Every handler of the source is one action; a handler's nested calls are  *)
(* composed as functions on a record of the fields they touch.              *)
(***************************************************************************)
EXTENDS Integers, Sequences, FiniteSets, TLC

(***************************************************************************)
(* Part I.  Photo / Document elements, the photo asset and the registry of  *)
(* heavy view parts.                                                        *)
(***************************************************************************)
VARIABLES
    photoAlive,          \* the Photo object exists (constructed, not destroyed)
    serviceWidth,        \* Photo::_serviceWidth (> 0: round userpic photo)
    grouped,             \* the Photo is a part of an album (drawn by drawGrouped)
    dataMedia,           \* Photo::_dataMedia != nullptr
    streamed,            \* Photo::_streamed: NoStream or a Streamed record
    imageCache,          \* Photo::_imageCache with its three key fields
    groupedCache,        \* the album's cacheKey / cache pair of this part
    docAlive,            \* the Document object exists
    docDataMedia,        \* Document::_dataMedia != nullptr
    heavyViewParts,      \* Data::Session's registry of heavy elements
    images,              \* tiers of the photo that are available
    loading,             \* PhotoData::loading()
    uploading,           \* PhotoData::uploading()
    hasVideo,            \* the photo has a video (animated userpic)
    videoPlaybackFailed, \* PhotoData::setVideoPlaybackFailed() was called
    autoplayEnabled,     \* Data::AutoDownload::ShouldAutoPlay(...)
    keptAlive,           \* owner().keepAlive(...) still holds the media view
    streamEvents,        \* updates of the streaming player not yet delivered
    notified,            \* tier notifications so far: the highest tier, whether
                         \* they came in order and each was followed by a
                         \* repaint, and whether one awaits its repaint
    last                 \* the last operation and what it returned / painted

mediaVars == <<photoAlive, serviceWidth, grouped, dataMedia, streamed,
               imageCache, groupedCache, docAlive, docDataMedia,
               heavyViewParts, images, loading, uploading, hasVideo,
               videoPlaybackFailed, autoplayEnabled, keptAlive, streamEvents,
               notified, last>>

\* ---- tiers of a photo (Data::PhotoSize plus the inline thumbnail) --------
TierNone == 0
TierInline == 1
TierSmall == 2
TierThumbnail == 3
TierLarge == 4
Tiers == {TierInline, TierSmall, TierThumbnail, TierLarge}

\* ---- style constants used by Photo::draw / Photo::textState --------------
msgPaddingLeft == 1
msgPaddingRight == 1
msgPaddingBottom == 1
mediaCaptionSkip == 1

\* ---- bounds of the element geometry the handlers are called with ---------
MaxWidth == 4
MaxHeight == 6
CaptionHeight == 2

\* _streamed == nullptr, and a fresh Streamed object.
NoStream == [open |-> FALSE, ready |-> FALSE, active |-> FALSE,
             frozenFrame |-> FALSE]
NewStream(ready) == [open |-> TRUE, ready |-> ready, active |-> FALSE,
                     frozenFrame |-> FALSE]
\* A null QImage and the key fields as the constructor leaves them.
NoCache == [tier |-> TierNone, w |-> 0, h |-> 0, radius |-> "None",
            corners |-> {}, blurred |-> 0]
NoGroupedCache == [tier |-> TierNone, key |-> <<>>]

\* What the last operation did that the element's fields do not show: the
\* call it made on the delegate, whether a callback body ran and whether the
\* object it belongs to existed then, the tier it selected for painting and
\* on which path and whether it selected it anew (fresh) or took it from a
\* cache, the link a hit test returned and where the point was, and whether
\* it tried to create a streaming player.
Op(name) ==
    [op |-> name, ran |-> FALSE, alive |-> TRUE, delegate |-> "none",
     path |-> "none", tier |-> TierNone, fresh |-> FALSE, link |-> "none",
     inImage |-> FALSE, info |-> FALSE, created |-> FALSE,
     frame |-> "none", shown |-> FALSE, repaint |-> FALSE,
     locked |-> FALSE, paused |-> FALSE,
     captionAt |-> <<>>, textAt |-> <<>>, upon |-> FALSE]
Begin(s, name) == [s EXCEPT !.last = Op(name)]

Max(a, b) == IF a >= b THEN a ELSE b
Min(a, b) == IF a <= b THEN a ELSE b

\* The fields the handlers read and write, as one record.
MediaState ==
    [photoAlive |-> photoAlive, serviceWidth |-> serviceWidth,
     grouped |-> grouped, dataMedia |-> dataMedia, streamed |-> streamed,
     imageCache |-> imageCache, groupedCache |-> groupedCache,
     docAlive |-> docAlive, docDataMedia |-> docDataMedia,
     heavyViewParts |-> heavyViewParts, images |-> images,
     loading |-> loading, uploading |-> uploading, hasVideo |-> hasVideo,
     videoPlaybackFailed |-> videoPlaybackFailed,
     autoplayEnabled |-> autoplayEnabled, keptAlive |-> keptAlive,
     streamEvents |-> streamEvents, notified |-> notified, last |-> last]

Commit(s) ==
    /\ photoAlive' = s.photoAlive
    /\ serviceWidth' = s.serviceWidth
    /\ grouped' = s.grouped
    /\ dataMedia' = s.dataMedia
    /\ streamed' = s.streamed
    /\ imageCache' = s.imageCache
    /\ groupedCache' = s.groupedCache
    /\ docAlive' = s.docAlive
    /\ docDataMedia' = s.docDataMedia
    /\ heavyViewParts' = s.heavyViewParts
    /\ images' = s.images
    /\ loading' = s.loading
    /\ uploading' = s.uploading
    /\ hasVideo' = s.hasVideo
    /\ videoPlaybackFailed' = s.videoPlaybackFailed
    /\ autoplayEnabled' = s.autoplayEnabled
    /\ keptAlive' = s.keptAlive
    /\ streamEvents' = s.streamEvents
    /\ notified' = s.notified
    /\ last' = s.last

\* ---- PhotoData / PhotoMedia accessors ------------------------------------
image(s, tier) == s.images[tier]
thumbnailInline(s) == s.images[TierInline]
loaded(s) == s.images[TierLarge]
videoCanBePlayed(s) == s.hasVideo /\ ~s.videoPlaybackFailed
videoAutoplayEnabled(s) == s.autoplayEnabled

\* ---- the registry of heavy view parts (Data::Session, Element) -----------
Photo_hasHeavyPart(s) == (s.streamed.open) \/ s.dataMedia
Document_hasHeavyPart(s) == s.docDataMedia

registerHeavyViewPart(s, e) ==
    [s EXCEPT !.heavyViewParts = @ \cup {e}]

\* Element::checkHeavyPart(): the element leaves the registry when its media
\* no longer holds a heavy part.
checkHeavyPart(s, e) ==
    LET heavy == IF e = "photo" THEN Photo_hasHeavyPart(s)
                 ELSE Document_hasHeavyPart(s)
    IN  IF heavy THEN s ELSE [s EXCEPT !.heavyViewParts = @ \ {e}]

\* ---- Photo: media view and streaming player ------------------------------
\* Photo::dataMediaCreated (the request for the Small tier it may send does
\* not change PhotoData::loading(), which is about the Large tier).
Photo_dataMediaCreated_NoRegister(s) == s
Photo_dataMediaCreated(s) == registerHeavyViewPart(s, "photo")

Photo_ensureDataMediaCreated(s) ==
    IF s.dataMedia THEN s
    ELSE Photo_dataMediaCreated([s EXCEPT !.dataMedia = TRUE])

Photo_setStreamed(s, value) ==
    LET removed == s.streamed.open /\ ~value.open
        set == ~s.streamed.open /\ value.open
        s1 == [s EXCEPT !.streamed = value]
    IN  IF set THEN registerHeavyViewPart(s1, "photo")
        ELSE IF removed THEN checkHeavyPart(s1, "photo")
        ELSE s1

Photo_stopAnimation(s) == Photo_setStreamed(s, NoStream)

\* Photo::checkStreamedIsStarted: resumes / starts the player.
Photo_checkStreamedIsStarted(s) ==
    IF ~s.streamed.open THEN s
    ELSE [s EXCEPT !.streamed.active = TRUE]

\* Photo::createStreamingObjects. valid: the instance could be opened;
\* ready: the shared streaming document is ready already.
\* The result is <<state, returned value>>.
Photo_createStreamingObjects(s, valid, ready) ==
    LET s1 == [Photo_setStreamed(s, NewStream(ready)) EXCEPT
                  !.last.created = TRUE]
    IN  IF ~valid THEN <<Photo_stopAnimation(s1), FALSE>>
        ELSE <<Photo_checkStreamedIsStarted(s1), TRUE>>

\* Photo::showPhoto: the delegate opens the photo.
Photo_showPhoto(s) == [s EXCEPT !.last.delegate = "openPhoto"]

Photo_playAnimation_NoMediaView(s, autoplay, valid, ready) ==
    IF s.streamed.open /\ autoplay THEN s
    ELSE IF s.streamed.open /\ videoAutoplayEnabled(s) THEN Photo_showPhoto(s)
    ELSE IF s.streamed.open THEN Photo_stopAnimation(s)
    ELSE IF videoCanBePlayed(s) THEN
        LET r == Photo_createStreamingObjects(s, valid, ready)
        IN  IF ~r[2] THEN [r[1] EXCEPT !.videoPlaybackFailed = TRUE]
            ELSE r[1]
    ELSE s
Photo_playAnimation(s, autoplay, valid, ready) ==
    LET s1 == Photo_ensureDataMediaCreated(s)
    IN  IF s1.streamed.open /\ autoplay THEN s1
        ELSE IF s1.streamed.open /\ videoAutoplayEnabled(s1)
            THEN Photo_showPhoto(s1)
        ELSE IF s1.streamed.open THEN Photo_stopAnimation(s1)
        ELSE IF videoCanBePlayed(s1) THEN
            LET r == Photo_createStreamingObjects(s1, valid, ready)
            IN  IF ~r[2] THEN [r[1] EXCEPT !.videoPlaybackFailed = TRUE]
                ELSE r[1]
        ELSE s1

Photo_handleStreamingError_NotMarked(s) == Photo_stopAnimation(s)
Photo_handleStreamingError(s) ==
    Photo_stopAnimation([s EXCEPT !.videoPlaybackFailed = TRUE])

Photo_checkAnimation(s) ==
    IF s.streamed.open /\ ~videoAutoplayEnabled(s) THEN Photo_stopAnimation(s)
    ELSE s

Photo_unloadHeavyPart(s) ==
    LET s1 == Photo_stopAnimation(s)
    IN  [s1 EXCEPT !.dataMedia = FALSE,
                   !.imageCache = [@ EXCEPT !.tier = TierNone,
                                            !.w = 0, !.h = 0]]

\* Photo::~Photo.
Photo_destroy(s) ==
    LET s1 == IF s.streamed.open THEN Photo_stopAnimation(s) ELSE s
        s2 == IF s1.dataMedia
              THEN checkHeavyPart([s1 EXCEPT !.dataMedia = FALSE,
                                             !.keptAlive = TRUE], "photo")
              ELSE s1
    IN  [s2 EXCEPT !.photoAlive = FALSE, !.imageCache = NoCache]

\* Photo::Photo / Photo::create: a view is built for the message.
Photo_create(s, width, album) ==
    LET s1 == [s EXCEPT !.photoAlive = TRUE, !.serviceWidth = width,
                        !.grouped = album, !.streamed = NoStream,
                        !.imageCache = NoCache, !.dataMedia = s.keptAlive]
    IN  IF s1.dataMedia THEN Photo_dataMediaCreated(s1) ELSE s1

\* ---- Photo: painting -----------------------------------------------------
\* A paint of the element answers the tier notifications sent so far.
Repainted(s) == [s EXCEPT !.notified.pending = FALSE]

TopCorners == {"TopLeft", "TopRight"}
BottomCorners == {"BottomLeft", "BottomRight"}
AllCorners == TopCorners \cup BottomCorners

\* The layouts an element is painted and hit-tested in: its width and height,
\* whether it has a caption, a bubble, is the bubble's top / bottom, and
\* whether it is shown inside a web page preview (_parent->media() != this).
\* A caption needs a bubble (Photo::needsBubble) and a photo inside a web
\* page has none (Photo::countOptimalSize).
Layouts ==
    {l \in [width : {msgPaddingLeft + msgPaddingRight, MaxWidth},
            height : {MaxHeight},
            caption : BOOLEAN, bubble : BOOLEAN, bubbleTop : BOOLEAN,
            bubbleBottom : BOOLEAN, inWebPage : BOOLEAN] :
        /\ l.caption => (l.bubble /\ ~l.inWebPage)}

\* PhotoMedia::automaticLoad: may start the download of the Large tier.
automaticLoad(s, autoLoad) ==
    IF autoLoad /\ ~loaded(s) /\ ~s.uploading
    THEN [s EXCEPT !.loading = TRUE] ELSE s

\* Photo::prepareImageCache(QSize): the image handed on as "blurred".
Photo_blurredTier(s) ==
    IF thumbnailInline(s) THEN TierInline
    ELSE IF image(s, TierThumbnail) THEN TierThumbnail
    ELSE IF image(s, TierSmall) THEN TierSmall
    ELSE IF image(s, TierLarge) THEN TierLarge
    ELSE TierNone

\* Photo::prepareImageCache: PrepareWithBlurredBackground paints the large
\* image when there is one and the blurred one otherwise.
Photo_prepareImageCache(s) ==
    IF image(s, TierLarge) THEN TierLarge ELSE Photo_blurredTier(s)

Photo_validateImageCache_Always(s, w, h, radius, corners) ==
    [s EXCEPT !.imageCache =
                  [tier |-> Photo_prepareImageCache(s), w |-> w, h |-> h,
                   radius |-> radius, corners |-> corners,
                   blurred |-> IF image(s, TierLarge) THEN 0 ELSE 1],
              !.last.fresh = TRUE]
Photo_validateImageCache(s, w, h, radius, corners) ==
    LET shouldBeBlurred == IF image(s, TierLarge) THEN 0 ELSE 1
        c == s.imageCache
    IN  IF c.w = w /\ c.h = h /\ c.radius = radius /\ c.corners = corners
           /\ c.blurred = shouldBeBlurred
        THEN s
        ELSE [s EXCEPT !.imageCache =
                 [tier |-> Photo_prepareImageCache(s), w |-> w, h |-> h,
                  radius |-> radius, corners |-> corners,
                  blurred |-> shouldBeBlurred],
                       !.last.fresh = TRUE]

\* The pix lambda of Photo::paintUserpicFrame.
Photo_userpicTier(s) ==
    IF image(s, TierLarge) THEN TierLarge
    ELSE IF image(s, TierThumbnail) THEN TierThumbnail
    ELSE IF image(s, TierSmall) THEN TierSmall
    ELSE IF thumbnailInline(s) THEN TierInline
    ELSE TierNone

\* Photo::paintUserpicFrame, the branch of a ready player. last.frame tells
\* where the painted image came from: "request" is a call of
\* instance.frame(request), "frozen" the frame kept in _streamed->frozenFrame;
\* last.shown is the call of instance.markFrameShown().
Photo_paintStreamedFrame_RequestAlways(s, in) ==
    LET s1 == [s EXCEPT !.last.path = "frame", !.last.locked = in.locked,
                        !.last.paused = in.paused]
    IN  IF in.locked
        THEN [s1 EXCEPT !.streamed.frozenFrame = TRUE,
                        !.last.frame = "request"]
        ELSE [s1 EXCEPT !.streamed.frozenFrame = FALSE,
                        !.last.frame = "request",
                        !.last.shown = ~in.paused]
Photo_paintStreamedFrame(s, in) ==
    LET s1 == [s EXCEPT !.last.path = "frame", !.last.locked = in.locked,
                        !.last.paused = in.paused]
    IN  IF in.locked
        THEN IF ~s1.streamed.frozenFrame
             THEN [s1 EXCEPT !.streamed.frozenFrame = TRUE,
                             !.last.frame = "request"]
             ELSE [s1 EXCEPT !.last.frame = "frozen"]
        ELSE [s1 EXCEPT !.streamed.frozenFrame = FALSE,
                        !.last.frame = "request",
                        !.last.shown = ~in.paused]

\* Photo::paintUserpicFrame. in: what the streaming instance answers
\* (valid, ready, locked) and context.paused.
Photo_paintUserpicFrame_AlwaysStart(s, in) ==
    LET autoplay == videoCanBePlayed(s) /\ videoAutoplayEnabled(s)
        startPlay == ~s.streamed.open
        s1 == IF startPlay
              THEN Photo_playAnimation(s, TRUE, in.valid, in.ready)
              ELSE Photo_checkStreamedIsStarted(s)
    IN  IF s1.streamed.open /\ s1.streamed.ready THEN
            Photo_paintStreamedFrame(s1, in)
        ELSE [s1 EXCEPT !.last.path = "userpic", !.last.fresh = TRUE,
                        !.last.tier = Photo_userpicTier(s1)]
Photo_paintUserpicFrame(s, in) ==
    LET autoplay == videoCanBePlayed(s) /\ videoAutoplayEnabled(s)
        startPlay == autoplay /\ ~s.streamed.open
        s1 == IF startPlay
              THEN Photo_playAnimation(s, TRUE, in.valid, in.ready)
              ELSE Photo_checkStreamedIsStarted(s)
    IN  IF s1.streamed.open /\ s1.streamed.ready THEN
            Photo_paintStreamedFrame(s1, in)
        ELSE [s1 EXCEPT !.last.path = "userpic", !.last.fresh = TRUE,
                        !.last.tier = Photo_userpicTier(s1)]

\* Photo::draw.
Photo_draw(s0, lay, in) ==
    LET s == Begin(s0, "draw")
    IN  IF lay.width < msgPaddingLeft + msgPaddingRight + 1 THEN s
        ELSE
        LET s1 == automaticLoad(
                      Photo_ensureDataMediaCreated(Repainted(s)), in.autoLoad)
            captioned == lay.bubble /\ lay.caption
            painth == lay.height
                      - (IF captioned THEN mediaCaptionSkip + CaptionHeight
                         ELSE 0)
                      - (IF captioned /\ lay.bubbleBottom
                         THEN msgPaddingBottom ELSE 0)
            roundRadius == IF lay.inWebPage THEN "Small" ELSE "Large"
            roundCorners ==
                IF lay.inWebPage THEN AllCorners
                ELSE (IF lay.bubbleTop THEN TopCorners ELSE {})
                     \cup (IF lay.bubbleBottom /\ ~lay.caption
                           THEN BottomCorners ELSE {})
            captionw == lay.width - msgPaddingLeft - msgPaddingRight
            s3 == IF s1.serviceWidth > 0 THEN Photo_paintUserpicFrame(s1, in)
                  ELSE LET s2 == Photo_validateImageCache(
                                     s1, lay.width, painth, roundRadius,
                                     roundCorners)
                       IN  [s2 EXCEPT !.last.path = "single",
                                      !.last.tier = s2.imageCache.tier]
        IN  IF lay.caption
            THEN [s3 EXCEPT !.last.captionAt =
                     <<msgPaddingLeft,
                       (IF s1.serviceWidth > 0 THEN lay.height ELSE painth)
                           + mediaCaptionSkip,
                       captionw, CaptionHeight>>]
            ELSE s3

\* Photo::validateGroupedCache.
Photo_validateGroupedCache(s0, w, h, corners) ==
    LET s == Photo_ensureDataMediaCreated(s0)
        loadLevel == IF loaded(s) THEN 2
                     ELSE IF thumbnailInline(s) \/ image(s, TierSmall)
                             \/ image(s, TierThumbnail) THEN 1
                     ELSE 0
        options == <<~loaded(s), corners>>
        key == <<w, h, options, loadLevel>>
        tier == IF image(s, TierLarge) THEN TierLarge
                ELSE IF image(s, TierThumbnail) THEN TierThumbnail
                ELSE IF image(s, TierSmall) THEN TierSmall
                ELSE IF thumbnailInline(s) THEN TierInline
                ELSE TierNone
    IN  IF s.groupedCache.key = key THEN s
        ELSE [s EXCEPT !.groupedCache = [tier |-> tier, key |-> key],
                       !.last.fresh = TRUE]

\* Photo::drawGrouped.
Photo_drawGrouped(s0, w, h, corners, autoLoad) ==
    LET s1 == automaticLoad(
                  Photo_ensureDataMediaCreated(
                      Repainted(Begin(s0, "drawGrouped"))),
                  autoLoad)
        s2 == Photo_validateGroupedCache(s1, w, h, corners)
    IN  [s2 EXCEPT !.last.path = "grouped",
                   !.last.tier = s2.groupedCache.tier]

\* ---- Photo: hit testing --------------------------------------------------
\* QRect(x, y, w, h).contains(QPoint(px, py)).
Contains(x, y, w, h, px, py) ==
    w > 0 /\ h > 0 /\ px >= x /\ px < x + w /\ py >= y /\ py < y + h

\* The link chain shared by Photo::textState and Photo::getStateGrouped.
Photo_stateLink_LoadedFirst(s) ==
    IF loaded(s) THEN "open"
    ELSE IF s.uploading \/ s.loading THEN "cancel"
    ELSE "save"
Photo_stateLink(s) ==
    IF s.uploading THEN "cancel"
    ELSE IF loaded(s) THEN "open"
    ELSE IF s.loading THEN "cancel"
    ELSE "save"

\* Ui::Text::String::getState for a point given from the origin of the text:
\* the point is upon the text when it lies in the rectangle the text fills,
\* its width by its countHeight.
Text_getState(x, y, w, h) == Contains(0, 0, w, h, x, y)

\* Photo::textState, the top of the caption: what is left of the height
\* below the image.
Photo_textStateCaptionTop_NoBottom(lay) ==
    lay.height - (IF lay.bubble /\ lay.caption THEN CaptionHeight ELSE 0)
Photo_textStateCaptionTop(lay) ==
    lay.height
    - (IF lay.bubble /\ lay.caption THEN CaptionHeight ELSE 0)
    - (IF lay.bubble /\ lay.caption /\ lay.bubbleBottom
       THEN msgPaddingBottom ELSE 0)

\* Photo::textState. info: _parent->bottomInfoTextState(...) answers with a
\* link or a cursor for this point. (The right-action rectangle starts right
\* of fullRight, outside of the element, and is not among the points.)
Photo_textState(s0, lay, px, py, info) ==
    LET s == Begin(s0, "textState")
    IN  IF lay.width < msgPaddingLeft + msgPaddingRight + 1 THEN s
        ELSE
        LET captioned == lay.bubble /\ lay.caption
            captionw == lay.width - msgPaddingLeft - msgPaddingRight
            h1 == Photo_textStateCaptionTop(lay)
        IN  IF captioned
               /\ Contains(msgPaddingLeft, h1, captionw, lay.height - h1,
                           px, py)
            THEN [s EXCEPT !.last.link = "caption",
                           !.last.textAt = <<msgPaddingLeft, h1, captionw>>,
                           !.last.upon =
                               Text_getState(px - msgPaddingLeft, py - h1,
                                             captionw, CaptionHeight)]
            ELSE
            LET painth == h1 - (IF captioned THEN mediaCaptionSkip ELSE 0)
                inside == Contains(0, 0, lay.width, painth, px, py)
                s1 == IF inside
                      THEN LET s2 == Photo_ensureDataMediaCreated(s)
                           IN  [s2 EXCEPT !.last.link = Photo_stateLink(s2),
                                          !.last.inImage = TRUE]
                      ELSE s
            IN  IF ~lay.caption /\ ~lay.inWebPage /\ info
                THEN [s1 EXCEPT !.last.link = "info", !.last.info = TRUE]
                ELSE s1

\* Photo::getStateGrouped for the part's geometry (gx, gy, gw, gh).
Photo_getStateGrouped(s0, gx, gy, gw, gh, px, py) ==
    LET s == Begin(s0, "getStateGrouped")
    IN  IF ~Contains(gx, gy, gw, gh, px, py) THEN s
        ELSE LET s1 == Photo_ensureDataMediaCreated(s)
             IN  [s1 EXCEPT !.last.link = Photo_stateLink(s1),
                            !.last.inImage = TRUE]

\* ---- Document: the media view -------------------------------------------
Document_ensureDataMediaCreated(s) ==
    IF s.docDataMedia THEN s
    ELSE registerHeavyViewPart([s EXCEPT !.docDataMedia = TRUE], "document")

Document_unloadHeavyPart(s) == [s EXCEPT !.docDataMedia = FALSE]

\* Document::~Document.
Document_destroy(s) ==
    LET s1 == IF s.docDataMedia
              THEN checkHeavyPart([s EXCEPT !.docDataMedia = FALSE],
                                  "document")
              ELSE s
    IN  [s1 EXCEPT !.docAlive = FALSE]

\* ---- Element / Data::Session: unloading ----------------------------------
\* Element::unloadHeavyPart: the element leaves the registry and its media
\* unloads; an album also drops the cache it keeps for each part.
Element_unloadHeavyPart(s, e) ==
    LET s1 == [s EXCEPT !.heavyViewParts = @ \ {e}]
    IN  IF e = "photo"
        THEN LET s2 == Photo_unloadHeavyPart(s1)
             IN  IF s2.grouped
                 THEN [s2 EXCEPT !.groupedCache = NoGroupedCache] ELSE s2
        ELSE Document_unloadHeavyPart(s1)

\* Data::Session::unloadHeavyViewParts: the sweep over the whole registry.
unloadHeavyViewParts(s) ==
    LET s1 == IF "photo" \in s.heavyViewParts
              THEN Element_unloadHeavyPart(s, "photo") ELSE s
    IN  IF "document" \in s1.heavyViewParts
        THEN Element_unloadHeavyPart(s1, "document") ELSE s1

\* ---- callbacks that may outlive the element ------------------------------
\* crl::guard(this, callback): the body runs only while the object exists.
guard_Unguarded(thisAlive) == TRUE
guard(thisAlive) == thisAlive

\* PhotoOpenClickHandler built in Photo::create is clicked.
Photo_openClicked(s0) ==
    LET s == Begin(s0, "openClicked")
    IN  IF guard(s.photoAlive)
        THEN [Photo_showPhoto(s) EXCEPT !.last.ran = TRUE,
                                        !.last.alive = s.photoAlive]
        ELSE s

\* PhotoCancelClickHandler built in Photo::create is clicked: an upload is
\* cancelled through the element, a download by the data itself.
Photo_cancelClicked(s0) ==
    LET s == Begin(s0, "cancelClicked")
    IN  IF s.uploading THEN
            IF guard(s.photoAlive)
            THEN [s EXCEPT !.last.ran = TRUE, !.last.alive = s.photoAlive,
                           !.last.delegate = "cancelUpload"]
            ELSE s
        ELSE [s EXCEPT !.loading = FALSE]

\* DocumentCancelClickHandler built in Document::createComponents is
\* clicked while the document uploads.
Document_cancelClicked(s0) ==
    LET s == Begin(s0, "docCancelClicked")
    IN  IF guard(s.docAlive)
        THEN [s EXCEPT !.last.ran = TRUE, !.last.alive = s.docAlive,
                       !.last.delegate = "cancelUpload"]
        ELSE s

\* An update of the streaming player reaches the subscription made in
\* Photo::createStreamingObjects, which lives in _streamed->instance.
StreamEvents == {"information", "frame", "error"}

\* Photo::repaintStreamedContent. animationsPaused is what
\* _parent->delegate()->elementAnimationsPaused() answers.
Photo_repaintStreamedContent_Always(s, animationsPaused) ==
    [s EXCEPT !.last.repaint = TRUE]
Photo_repaintStreamedContent(s, animationsPaused) ==
    IF s.streamed.open /\ s.streamed.frozenFrame THEN s
    ELSE IF animationsPaused THEN s
    ELSE [s EXCEPT !.last.repaint = TRUE]

\* Photo::handleStreamingUpdate, Photo::streamingReady.
Photo_handleStreaming(s0, ev, animationsPaused) ==
    LET s == [Begin(s0, ev) EXCEPT !.streamEvents = @ \ {ev}]
    IN  IF ~s.streamed.open THEN s
        ELSE LET s1 == [s EXCEPT !.last.ran = TRUE,
                                 !.last.alive = s.photoAlive]
             IN  IF ev = "error" THEN Photo_handleStreamingError(s1)
                 ELSE IF ev = "information"
                     THEN [s1 EXCEPT !.streamed.ready = TRUE,
                                     !.last.repaint = TRUE]
                 ELSE Photo_repaintStreamedContent(s1, animationsPaused)

(***************************************************************************)
(* Part II.  ChatHelpers::StickersListFooter: the strip of set icons with   *)
(* its two scroll axes (the icons, and the sub-icons of the All Emoji       *)
(* cell), the selection, the drag and the wheel.                            *)
(* Positions are whole pixels: an interpolated value is rounded when it is  *)
(* computed, as the code rounds it when it reads it (SafeRound, qRound).    *)
(* Time is counted in frames; an animation keeps the frames elapsed since   *)
(* its start in place of the time of its start.                             *)
(***************************************************************************)
VARIABLES
    icons,                  \* _icons: the set ids of the cells, left to right
    footerWidth,            \* width() of the widget
    barSelection,           \* _barSelection
    rtl,                    \* rtl(): right-to-left layout
    searchButtonVisible,    \* _searchButtonVisible
    settingsButtonVisible,  \* _settingsButtonVisible
    searchShown,            \* _searchShown
    singleWidth,            \* _singleWidth
    subiconsWidth,          \* _subiconsWidth
    subiconsExpanded,       \* _subiconsExpanded
    subiconsWidthAnimation, \* _subiconsWidthAnimation (Ui::Animations::Simple)
    iconState,              \* _iconState (ScrollState)
    subiconState,           \* _subiconState (ScrollState)
    selected,               \* _selected (OverState)
    pressed,                \* _pressed (OverState)
    iconsMousePos,          \* _iconsMousePos
    iconsMouseDown,         \* _iconsMouseDown
    activeByScrollId,       \* _activeByScrollId
    horizontal,             \* _horizontal
    animationsDisabled,     \* anim::Disabled()
    stickerIconMove,        \* st::stickerIconMove, in frames
    slideDuration,          \* st::slideDuration, in frames
    due,                    \* animations whose callback this frame still owes
    footerLast              \* the last event and what it fired

footerVars == <<icons, footerWidth, barSelection, rtl, searchButtonVisible,
                settingsButtonVisible, searchShown, singleWidth,
                subiconsWidth, subiconsExpanded, subiconsWidthAnimation,
                iconState, subiconState, selected, pressed, iconsMousePos,
                iconsMouseDown, activeByScrollId, horizontal,
                animationsDisabled, stickerIconMove, slideDuration, due,
                footerLast>>

\* ---- set ids -------------------------------------------------------------
\* Ui::Emoji::Section.
SectionRecent == 0
SectionPeople == 1
SectionSymbols == 7
Sections == SectionRecent..SectionSymbols

\* The ids are 64 bit in the code; the model keeps their order and their
\* distances on a small scale: the ids of plain sets lie below the base of
\* the emoji sections, the two special sticker ids above every section.
kEmojiSectionSetIdBase == 100
\* Data::Stickers: FavedSetId < FeaturedSetId < RecentSetId.
FavedSetId == 201
FeaturedSetId == 202
RecentSetId == 203

EmojiSectionSetId(section) == kEmojiSectionSetIdBase + section + 1
RecentEmojiSectionSetId == EmojiSectionSetId(SectionRecent)
AllEmojiSectionSetId == kEmojiSectionSetIdBase

\* std::optional<EmojiSection>: the section, or NoSection.
NoSection == -1
SetIdEmojiSection_BelowSymbols(id) ==
    LET base == RecentEmojiSectionSetId
    IN  IF id < base THEN NoSection
        ELSE IF id - base < SectionSymbols THEN id - base
        ELSE NoSection
SetIdEmojiSection(id) ==
    LET base == RecentEmojiSectionSetId
    IN  IF id < base THEN NoSection
        ELSE IF id - base <= SectionSymbols THEN id - base
        ELSE NoSection

\* ---- style ---------------------------------------------------------------
iconWidth == 2          \* st().iconWidth
stickerIconWidth == 2   \* st::stickerIconWidth
iconSkip == 0           \* st().iconSkip
iconsTop == 0           \* _iconsTop
footerHeight == 1       \* st().footer
startDragDistance == 2  \* QApplication::startDragDistance()

\* ---- anim::value ---------------------------------------------------------
Value(from, to) == [from |-> from, to |-> to, cur |-> from]
finish(v) == [from |-> v.to, to |-> v.to, cur |-> v.to]
start(v, to) == [from |-> v.cur, to |-> to, cur |-> v.cur]

\* n / d rounded to the nearest whole number (d > 0).
Round(n, d) == (2 * n + d) \div (2 * d)

\* anim::linear and anim::easeOutCubic at dt = e / d, applied to delta.
linear(delta, e, d) == Round(delta * e, d)
easeOutCubic(delta, e, d) ==
    Round(delta * (d * d * d - (d - e) * (d - e) * (d - e)), d * d * d)

update_linear(v, e, d) ==
    [v EXCEPT !.cur = v.from + linear(v.to - v.from, e, d)]
update_easeOutCubic(v, e, d) ==
    [v EXCEPT !.cur = v.from + easeOutCubic(v.to - v.from, e, d)]

Clamp(v, lo, hi) == IF v < lo THEN lo ELSE IF v > hi THEN hi ELSE v

\* UpdateAnimated(value, to).
UpdateAnimated(value, to) ==
    IF value.to = to THEN value
    ELSE Value(IF value.from # value.to THEN value.from ELSE to, to)

\* UpdateAnimated(value, to, animations).
UpdateAnimatedBy(value, to, animations) ==
    IF animations = "Full" THEN start(value, to) ELSE Value(to, to)

ValidateIconAnimations == {"Full", "Scroll", "None"}

\* ---- the state of the widget --------------------------------------------
\* A ScrollState as its constructor leaves it. animationStart: the field is
\* non-zero; elapsed: now - animationStart; animating: animation.animating().
NewScrollState ==
    [x |-> Value(0, 0), selectionX |-> Value(0, 0),
     selectionWidth |-> Value(0, 0), max |-> 0, selected |-> -1,
     dragging |-> FALSE, draggingStartX |-> 0,
     animationStart |-> FALSE, elapsed |-> 0, animating |-> FALSE]

\* A Simple animation that was never started.
NoAnimation ==
    [animating |-> FALSE, from |-> 0, to |-> 0, value |-> 0, elapsed |-> 0]

\* OverState: SpecialOver::None / Search / Settings, or an IconId.
OverNone == [kind |-> "None", index |-> 0, subindex |-> 0]
OverSearch == [kind |-> "Search", index |-> 0, subindex |-> 0]
OverSettings == [kind |-> "Settings", index |-> 0, subindex |-> 0]
IconId(index, subindex) ==
    [kind |-> "Icon", index |-> index, subindex |-> subindex]

\* What the last event did that the fields do not show: the id it fired
\* through setChosen (0: none), the requests it fired, the id given to
\* validateSelectedIcon (-1: it was not called), and for a wheel step the
\* axis it used, the delta and the positions of both axes before it.
NoSetId == 0
NotValidated == -1
FooterOp(name) ==
    [op |-> name, setChosen |-> NoSetId, fired |-> 0,
     openSettings |-> FALSE, validated |-> NotValidated,
     axis |-> "none", delta |-> 0, iconX |-> Value(0, 0),
     subiconX |-> Value(0, 0), handled |-> FALSE]
FooterBegin(f, name) == [f EXCEPT !.footerLast = FooterOp(name)]

FooterState ==
    [icons |-> icons, width |-> footerWidth, barSelection |-> barSelection,
     rtl |-> rtl, searchButtonVisible |-> searchButtonVisible,
     settingsButtonVisible |-> settingsButtonVisible,
     searchShown |-> searchShown, singleWidth |-> singleWidth,
     subiconsWidth |-> subiconsWidth, subiconsExpanded |-> subiconsExpanded,
     subiconsWidthAnimation |-> subiconsWidthAnimation,
     iconState |-> iconState, subiconState |-> subiconState,
     selected |-> selected, pressed |-> pressed,
     iconsMousePos |-> iconsMousePos, iconsMouseDown |-> iconsMouseDown,
     activeByScrollId |-> activeByScrollId, horizontal |-> horizontal,
     animationsDisabled |-> animationsDisabled,
     stickerIconMove |-> stickerIconMove, slideDuration |-> slideDuration,
     due |-> due, footerLast |-> footerLast]

FooterCommit(f) ==
    /\ icons' = f.icons
    /\ footerWidth' = f.width
    /\ barSelection' = f.barSelection
    /\ rtl' = f.rtl
    /\ searchButtonVisible' = f.searchButtonVisible
    /\ settingsButtonVisible' = f.settingsButtonVisible
    /\ searchShown' = f.searchShown
    /\ singleWidth' = f.singleWidth
    /\ subiconsWidth' = f.subiconsWidth
    /\ subiconsExpanded' = f.subiconsExpanded
    /\ subiconsWidthAnimation' = f.subiconsWidthAnimation
    /\ iconState' = f.iconState
    /\ subiconState' = f.subiconState
    /\ selected' = f.selected
    /\ pressed' = f.pressed
    /\ iconsMousePos' = f.iconsMousePos
    /\ iconsMouseDown' = f.iconsMouseDown
    /\ activeByScrollId' = f.activeByScrollId
    /\ horizontal' = f.horizontal
    /\ animationsDisabled' = f.animationsDisabled
    /\ stickerIconMove' = f.stickerIconMove
    /\ slideDuration' = f.slideDuration
    /\ due' = f.due
    /\ footerLast' = f.footerLast

\* _iconsLeft and _iconsRight as the constructor computes them.
iconsLeft(f) ==
    iconSkip + (IF f.searchButtonVisible THEN stickerIconWidth ELSE 0)
iconsRight(f) ==
    iconSkip + (IF f.settingsButtonVisible THEN stickerIconWidth ELSE 0)

\* ---- the cells -----------------------------------------------------------
\* Ui::Animations::Simple::value(final).
AnimationValue(a, final) == IF a.animating THEN a.value ELSE final

\* The width enumerateIcons gives to the cell at index i (from 0).
IconWidth(f, i) ==
    IF f.icons[i + 1] = AllEmojiSectionSetId
    THEN AnimationValue(f.subiconsWidthAnimation,
                        IF f.subiconsExpanded THEN f.subiconsWidth
                        ELSE f.singleWidth)
    ELSE f.singleWidth

RECURSIVE IconLeft(_, _)
IconLeft(f, i) == IF i = 0 THEN 0 ELSE IconLeft(f, i - 1) + IconWidth(f, i - 1)

NoIconInfo ==
    [index |-> 0, left |-> 0, adjustedLeft |-> 0, width |-> 0,
     visible |-> FALSE]

\* The IconInfo that enumerateIcons hands to its callback for index i.
EnumeratedIcon(f, i) ==
    LET shift == iconsLeft(f) - f.iconState.x.cur
        left == IconLeft(f, i)
        width == IconWidth(f, i)
        shifted == shift + left
    IN  [index |-> i, left |-> left, adjustedLeft |-> shifted,
         width |-> width,
         visible |-> (shifted + width > 0 /\ shifted < f.width)]

\* StickersListFooter::enumerateIcons as the sequence of its callbacks' arguments.
enumerateIcons(f) == [k \in 1..Len(f.icons) |-> EnumeratedIcon(f, k - 1)]

\* StickersListFooter::enumerateSubicons, likewise.
enumerateSubicons(f) ==
    [k \in 1..(SectionSymbols - SectionPeople + 1) |->
        LET left == (k - 1) * f.singleWidth
            shifted == left - f.subiconState.x.cur
        IN  [index |-> k - 1, left |-> left, adjustedLeft |-> shifted,
             width |-> f.singleWidth,
             visible |-> (shifted + f.singleWidth > 0
                          /\ shifted < f.subiconsWidth)]]

\* The first element of a sequence of IconInfo that has the index, or the
\* default IconInfo.
FindInfo_Default(infos, index) == NoIconInfo
FindInfo(infos, index) ==
    IF \E k \in 1..Len(infos) : infos[k].index = index
    THEN infos[CHOOSE k \in 1..Len(infos) :
                   /\ infos[k].index = index
                   /\ \A j \in 1..(k - 1) : infos[j].index # index]
    ELSE NoIconInfo

iconInfo(f, index) == FindInfo(enumerateIcons(f), index)
subiconInfo(f, index) == FindInfo(enumerateSubicons(f), index)

\* ---- hovering ------------------------------------------------------------
hasOnlyFeaturedSets(f) == Len(f.icons) = 1 /\ f.icons[1] = FeaturedSetId

\* The sub-icon under subx of the All Emoji cell, 0 when there is none.
SubindexAt(f, subx) ==
    LET infos == enumerateSubicons(f)
        hit(k) == /\ subx >= infos[k].adjustedLeft
                  /\ subx < infos[k].adjustedLeft + infos[k].width
    IN  IF \E k \in 1..Len(infos) : hit(k)
        THEN infos[CHOOSE k \in 1..Len(infos) :
                       hit(k) /\ \A j \in 1..(k - 1) : ~hit(j)].index
        ELSE 0

\* The cell under x: the lambda of updateSelected run by enumerateIcons.
IconOverAt(f, x) ==
    LET infos == enumerateIcons(f)
        hit(k) == /\ x >= infos[k].adjustedLeft
                  /\ x < infos[k].adjustedLeft + infos[k].width
    IN  IF \E k \in 1..Len(infos) : hit(k)
        THEN LET info == infos[CHOOSE k \in 1..Len(infos) :
                                   hit(k) /\ \A j \in 1..(k - 1) : ~hit(j)]
             IN  IF f.icons[info.index + 1] = AllEmojiSectionSetId
                 THEN IconId(info.index,
                             SubindexAt(f, x - info.adjustedLeft))
                 ELSE IconId(info.index, 0)
        ELSE OverNone

\* StickersListFooter::updateSelected (mapFromGlobal is the identity: the
\* widget sits at the origin).
updateSelected(f) ==
    IF f.pressed # OverNone THEN f
    ELSE
    LET x == IF f.rtl THEN f.width - f.iconsMousePos[1]
             ELSE f.iconsMousePos[1]
        y == f.iconsMousePos[2]
        inRow == y >= iconsTop /\ y < iconsTop + footerHeight
        settingsLeft == f.width - iconsRight(f)
        searchLeft == iconsLeft(f) - f.singleWidth
        newOver ==
            IF f.searchButtonVisible /\ x >= searchLeft
               /\ x < searchLeft + f.singleWidth /\ inRow
            THEN OverSearch
            ELSE IF f.settingsButtonVisible /\ x >= settingsLeft
                    /\ x < settingsLeft + f.singleWidth /\ inRow
            THEN (IF Len(f.icons) # 0 /\ ~hasOnlyFeaturedSets(f)
                  THEN OverSettings ELSE OverNone)
            ELSE IF Len(f.icons) # 0 /\ inRow /\ x >= iconsLeft(f)
                    /\ x < f.width - iconsRight(f)
            THEN IconOverAt(f, x)
            ELSE OverNone
    IN  [f EXCEPT !.selected = newOver]

\* ---- the scroll animation ------------------------------------------------
\* ScrollState::animationCallback(now): <<the state after it, its result>>.
animationCallback_Never(f, state) ==
    LET e == state.elapsed
                 + (IF f.animationsDisabled THEN f.stickerIconMove ELSE 0)
        d == f.stickerIconMove
    IN  IF ~state.animationStart THEN <<state, FALSE>>
        ELSE <<[state EXCEPT !.x = update_linear(@, e, d),
                             !.selectionX = update_easeOutCubic(@, e, d),
                             !.selectionWidth = update_easeOutCubic(@, e, d)],
               TRUE>>
animationCallback(f, state) ==
    LET e == state.elapsed
                 + (IF f.animationsDisabled THEN f.stickerIconMove ELSE 0)
        d == f.stickerIconMove
    IN  IF ~state.animationStart THEN <<state, FALSE>>
        ELSE IF e >= d
        THEN <<[state EXCEPT !.animationStart = FALSE, !.elapsed = 0,
                             !.x = finish(@),
                             !.selectionX = finish(@),
                             !.selectionWidth = finish(@)], FALSE>>
        ELSE <<[state EXCEPT !.x = update_linear(@, e, d),
                             !.selectionX = update_easeOutCubic(@, e, d),
                             !.selectionWidth = update_easeOutCubic(@, e, d)],
               TRUE>>

\* animation.stop() of a ScrollState.
stopAnimation(state) == [state EXCEPT !.animating = FALSE, !.elapsed = 0]

\* ---- geometry ------------------------------------------------------------
refreshScrollableDimensions(f) ==
    LET last_ == iconInfo(f, Len(f.icons) - 1)
        max == Max(last_.left + last_.width + iconsLeft(f) + iconsRight(f)
                   - f.width, 0)
    IN  [f EXCEPT !.iconState.max = max,
                  !.iconState.x = IF @.cur > max THEN Value(max, max) ELSE @]

updateEmojiWidthCallback(f) ==
    LET f1 == refreshScrollableDimensions(f)
        info == iconInfo(f1, f1.iconState.selected)
        f2 == [f1 EXCEPT
                  !.iconState.selectionX = UpdateAnimated(@, info.left),
                  !.iconState.selectionWidth = UpdateAnimated(@, info.width)]
    IN  IF f2.iconState.animating
        THEN [f2 EXCEPT !.iconState = animationCallback(f2, @)[1]]
        ELSE f2

updateEmojiSectionWidth(f) ==
    LET expanded == /\ f.iconState.selected >= 0
                    /\ f.iconState.selected < Len(f.icons)
                    /\ f.icons[f.iconState.selected + 1]
                           = AllEmojiSectionSetId
        from == IF expanded THEN f.singleWidth ELSE f.subiconsWidth
        to == IF expanded THEN f.subiconsWidth ELSE f.singleWidth
    IN  IF f.subiconsExpanded = expanded THEN f
        ELSE [f EXCEPT !.subiconsExpanded = expanded,
                       !.subiconsWidthAnimation =
                           [animating |-> TRUE, from |-> from, to |-> to,
                            value |-> from, elapsed |-> 0]]

setSelectedIcon(f, newSelected, animations) ==
    IF f.iconState.selected = newSelected THEN f
    ELSE
    LET f1 == updateEmojiSectionWidth(
                  [f EXCEPT !.iconState.selected = newSelected])
        info == iconInfo(f1, f1.iconState.selected)
        relativeLeft == info.left - iconsLeft(f1)
        iconsWidthForCentering == 2 * relativeLeft + info.width
        \* the operands of the division are not negative in any layout of
        \* the model but for the sum as a whole, which C++ rounds to zero
        sum == iconsLeft(f1) + iconsWidthForCentering + iconsRight(f1)
               - f1.width
        half == IF sum >= 0 THEN sum \div 2 ELSE -((-sum) \div 2)
        iconsXFinal == Clamp(half, 0, f1.iconState.max)
        f2 == [f1 EXCEPT
                  !.iconState.selectionX =
                      UpdateAnimatedBy(@, info.left, animations),
                  !.iconState.selectionWidth =
                      UpdateAnimatedBy(@, info.width, animations)]
        f3 == IF animations = "None"
              THEN [f2 EXCEPT !.iconState =
                       stopAnimation([@ EXCEPT
                           !.x = Value(iconsXFinal, iconsXFinal)])]
              ELSE [f2 EXCEPT !.iconState =
                       [@ EXCEPT !.x = start(@, iconsXFinal),
                                 !.animationStart = TRUE,
                                 !.elapsed = 0,
                                 !.animating = TRUE]]
    IN  updateSelected(f3)

setSelectedSubicon(f, newSelected, animations) ==
    IF f.subiconState.selected = newSelected THEN f
    ELSE
    LET f1 == [f EXCEPT !.subiconState.selected = newSelected]
        info == subiconInfo(f1, newSelected)
        relativeLeft == info.left
        subiconsWidthForCentering == 2 * relativeLeft + info.width
        sum == subiconsWidthForCentering - f1.subiconsWidth
        half == IF sum >= 0 THEN sum \div 2 ELSE -((-sum) \div 2)
        subiconsXFinal == Clamp(half, 0, f1.subiconState.max)
        f2 == IF animations = "None"
              THEN [f1 EXCEPT !.subiconState =
                       stopAnimation([@ EXCEPT
                           !.x = Value(subiconsXFinal, subiconsXFinal)])]
              ELSE [f1 EXCEPT !.subiconState =
                       [@ EXCEPT !.x = start(@, subiconsXFinal),
                                 !.animationStart = TRUE,
                                 !.elapsed = 0,
                                 !.animating = TRUE]]
    IN  updateSelected(f2)

\* The loop of validateSelectedIcon from the cell at index i on:
\* <<favedIconIndex, newSelected, newSubSelected>> when it ends.
RECURSIVE ValidateLoop(_, _, _, _)
ValidateLoop(f, setId, i, acc) ==
    IF i = Len(f.icons) THEN acc
    ELSE
    LET id == f.icons[i + 1]
        section == SetIdEmojiSection(setId)
        isEmojiSection == section # NoSection /\ section # SectionRecent
    IN  IF id = setId \/ (id = FavedSetId /\ setId = RecentSetId)
        THEN <<acc[1], i, acc[3]>>
        ELSE IF id = FavedSetId
        THEN ValidateLoop(f, setId, i + 1, <<i, acc[2], acc[3]>>)
        ELSE IF isEmojiSection /\ id = AllEmojiSectionSetId
        THEN ValidateLoop(f, setId, i + 1,
                          <<acc[1], i,
                            setId - EmojiSectionSetId(SectionPeople)>>)
        ELSE ValidateLoop(f, setId, i + 1, acc)

validateSelectedIcon_NoFavedFallback(f, setId, animations) ==
    LET r == ValidateLoop(f, setId, 0, <<-1, -1, -1>>)
        f1 == [f EXCEPT !.activeByScrollId = setId,
                        !.footerLast.validated = setId]
        f2 == setSelectedIcon(f1, IF r[2] >= 0 THEN r[2] ELSE 0, animations)
    IN  setSelectedSubicon(f2, IF r[3] >= 0 THEN r[3] ELSE 0, animations)
validateSelectedIcon_SubiconShifted(f, setId, animations) ==
    LET r == ValidateLoop(f, setId, 0, <<-1, -1, -1>>)
        f1 == [f EXCEPT !.activeByScrollId = setId,
                        !.footerLast.validated = setId]
        f2 == setSelectedIcon(f1,
                              IF r[2] >= 0 THEN r[2]
                              ELSE IF r[1] >= 0 THEN r[1] ELSE 0,
                              animations)
    IN  setSelectedSubicon(f2, IF r[3] > 0 THEN r[3] - 1 ELSE 0, animations)
validateSelectedIcon(f, setId, animations) ==
    LET r == ValidateLoop(f, setId, 0, <<-1, -1, -1>>)
        f1 == [f EXCEPT !.activeByScrollId = setId,
                        !.footerLast.validated = setId]
        f2 == setSelectedIcon(f1,
                              IF r[2] >= 0 THEN r[2]
                              ELSE IF r[1] >= 0 THEN r[1] ELSE 0,
                              animations)
    IN  setSelectedSubicon(f2, IF r[3] >= 0 THEN r[3] ELSE 0, animations)

refreshSubiconsGeometry(f) ==
    IF f.barSelection THEN f
    ELSE
    LET half == f.singleWidth \div 2
        count == SectionSymbols - SectionRecent
        widthMax == count * f.singleWidth
        widthMin == 4 * f.singleWidth + half
        collapsedWidth == Len(f.icons) * f.singleWidth
        \* std::clamp(v, lo, hi) with lo <= hi
        clamped == Clamp(f.width + f.singleWidth - collapsedWidth,
                         widthMin, widthMax)
        width == IF clamped < widthMax
                 THEN half + (((clamped - half) \div f.singleWidth)
                              * f.singleWidth)
                 ELSE clamped
        max == Max(widthMax - width, 0)
        f1 == [f EXCEPT
                  !.subiconState =
                      [stopAnimation(@) EXCEPT
                          !.x = IF finish(@).cur > max THEN Value(max, max)
                                ELSE finish(@),
                          !.animationStart = FALSE,
                          !.max = max],
                  !.subiconsWidth = width]
    IN  updateEmojiWidthCallback(f1)

refreshIconsGeometry(f, activeSetId, animations) ==
    LET single == IF f.barSelection THEN stickerIconWidth
                  ELSE IF Len(f.icons) > 1
                          /\ f.icons[2] = EmojiSectionSetId(SectionPeople)
                  THEN (f.width - iconsLeft(f) - iconsRight(f))
                           \div Len(f.icons)
                  ELSE iconWidth
        f1 == [f EXCEPT
                  !.selected = OverNone, !.pressed = OverNone,
                  !.iconState =
                      [stopAnimation(@) EXCEPT
                          !.x = finish(@), !.selectionX = finish(@),
                          !.selectionWidth = finish(@),
                          !.animationStart = FALSE],
                  !.singleWidth = single]
        f2 == refreshSubiconsGeometry(refreshScrollableDimensions(f1))
        f3 == [f2 EXCEPT !.iconState.selected = -1,
                         !.subiconState.selected = -1]
    IN  validateSelectedIcon(f3, activeSetId, animations)

refreshIcons(f, newIcons, activeSetId, animations) ==
    refreshIconsGeometry([f EXCEPT !.icons = newIcons], activeSetId,
                         animations)

resizeEvent(f, newWidth) ==
    refreshIconsGeometry([f EXCEPT !.width = newWidth], f.activeByScrollId,
                         "None")

processHideFinished(f) ==
    [f EXCEPT
        !.selected = OverNone, !.pressed = OverNone,
        !.iconState =
            [stopAnimation(@) EXCEPT
                !.animationStart = FALSE, !.x = finish(@),
                !.selectionX = finish(@), !.selectionWidth = finish(@)],
        !.subiconState =
            [stopAnimation(@) EXCEPT !.animationStart = FALSE,
                                     !.x = finish(@)],
        !.horizontal = FALSE]

\* ---- the mouse -----------------------------------------------------------
mousePressEvent(f, pos, leftButton) ==
    IF ~leftButton THEN f
    ELSE
    LET f1 == updateSelected([f EXCEPT !.iconsMousePos = pos])
    IN  IF f1.selected = OverSettings
        THEN [f1 EXCEPT !.footerLast.openSettings = TRUE]
        ELSE IF f1.selected = OverSearch
        THEN [f1 EXCEPT !.searchShown = TRUE]
        ELSE [f1 EXCEPT !.pressed = f1.selected,
                        !.iconsMouseDown = f1.iconsMousePos,
                        !.iconState.draggingStartX = f1.iconState.x.cur,
                        !.subiconState.draggingStartX =
                            f1.subiconState.x.cur]

Abs(a) == IF a < 0 THEN -a ELSE a
manhattanLength(p, q) == Abs(p[1] - q[1]) + Abs(p[2] - q[2])

\* StickersListFooter::checkDragging(ScrollState&).
checkDragging_Animated(f, state) ==
    IF ~state.dragging THEN state
    ELSE
    LET newX == Clamp((IF f.rtl THEN -1 ELSE 1)
                          * (f.iconsMouseDown[1] - f.iconsMousePos[1])
                      + state.draggingStartX,
                      0, state.max)
    IN  IF newX # state.x.cur
        THEN [stopAnimation(state) EXCEPT !.x = start(@, newX),
                                          !.animationStart = FALSE]
        ELSE state
checkDragging(f, state) ==
    IF ~state.dragging THEN state
    ELSE
    LET newX == Clamp((IF f.rtl THEN -1 ELSE 1)
                          * (f.iconsMouseDown[1] - f.iconsMousePos[1])
                      + state.draggingStartX,
                      0, state.max)
    IN  IF newX # state.x.cur
        THEN [stopAnimation(state) EXCEPT !.x = Value(newX, newX),
                                          !.animationStart = FALSE]
        ELSE state

\* The drag begins on the axis of the pressed cell once the pointer moved
\* far enough from the press.
mouseMoveStartDrag_AnyMove(f1) ==
    IF ~(/\ ~f1.iconState.dragging
         /\ Len(f1.icons) # 0
         /\ f1.pressed.kind = "Icon"
         /\ manhattanLength(f1.iconsMousePos, f1.iconsMouseDown) >= 0)
    THEN f1
    ELSE IF f1.icons[f1.pressed.index + 1] = AllEmojiSectionSetId
    THEN [f1 EXCEPT !.subiconState.dragging = TRUE]
    ELSE [f1 EXCEPT !.iconState.dragging = TRUE]
mouseMoveStartDrag(f1) ==
    IF ~(/\ ~f1.iconState.dragging
         /\ Len(f1.icons) # 0
         /\ f1.pressed.kind = "Icon"
         /\ manhattanLength(f1.iconsMousePos, f1.iconsMouseDown)
                >= startDragDistance)
    THEN f1
    ELSE IF f1.icons[f1.pressed.index + 1] = AllEmojiSectionSetId
    THEN [f1 EXCEPT !.subiconState.dragging = TRUE]
    ELSE [f1 EXCEPT !.iconState.dragging = TRUE]
mouseMoveChecked(f2) ==
    [f2 EXCEPT !.iconState = checkDragging(f2, @),
               !.subiconState = checkDragging(f2, @)]
mouseMoveEvent(f, pos) ==
    mouseMoveChecked(
        mouseMoveStartDrag(updateSelected([f EXCEPT !.iconsMousePos = pos])))

\* StickersListFooter::finishDragging(ScrollState&), the state after it.
finishDraggingState(f, state) ==
    IF ~state.dragging THEN state
    ELSE
    LET newX == Clamp(state.draggingStartX + f.iconsMouseDown[1]
                          - f.iconsMousePos[1],
                      0, state.max)
        s1 == IF newX # state.x.cur
              THEN [stopAnimation(state) EXCEPT !.x = Value(newX, newX),
                                                !.animationStart = FALSE]
              ELSE state
    IN  [s1 EXCEPT !.dragging = FALSE]

\* StickersListFooter::finishDragging(): <<the widget after it, its result>>.
\* Each axis that was dragged ends with updateSelected().
finishDraggingIcon(f) ==
    IF f.iconState.dragging
    THEN updateSelected([f EXCEPT !.iconState = finishDraggingState(f, @)])
    ELSE f
finishDraggingSubicon(f1) ==
    IF f1.subiconState.dragging
    THEN updateSelected(
             [f1 EXCEPT !.subiconState = finishDraggingState(f1, @)])
    ELSE f1
finishDraggingBoth(f, f1) ==
    <<finishDraggingSubicon(f1),
      f.iconState.dragging \/ f1.subiconState.dragging>>
finishDragging(f) == finishDraggingBoth(f, finishDraggingIcon(f))

\* The tail of mouseReleaseEvent after updateSelected(): the cell that was
\* pressed and is still under the pointer is chosen.
mouseReleaseChosen(f1, wasDown) ==
    IF wasDown = f1.selected /\ f1.selected.kind = "Icon"
    THEN LET info == iconInfo(f1, f1.selected.index)
             setId == f1.icons[f1.selected.index + 1]
         IN  [f1 EXCEPT
                 !.iconState.selectionX = Value(info.left, info.left),
                 !.iconState.selectionWidth = Value(info.width, info.width),
                 !.footerLast.fired = @ + 1,
                 !.footerLast.setChosen =
                     IF setId = AllEmojiSectionSetId
                     THEN EmojiSectionSetId(
                              SectionPeople + f1.selected.subindex)
                     ELSE setId]
    ELSE f1
mouseReleaseFinished(r, wasDown) ==
    IF r[2] THEN r[1] ELSE mouseReleaseChosen(updateSelected(r[1]), wasDown)
mouseReleaseEvent_DragIgnored(f, pos) ==
    IF Len(f.icons) = 0 THEN f
    ELSE mouseReleaseChosen(
             updateSelected(
                 finishDragging([f EXCEPT !.pressed = OverNone,
                                          !.iconsMousePos = pos])[1]),
             f.pressed)
mouseReleaseEvent(f, pos) ==
    IF Len(f.icons) = 0 THEN f
    ELSE mouseReleaseFinished(
             finishDragging([f EXCEPT !.pressed = OverNone,
                                      !.iconsMousePos = pos]),
             f.pressed)

leaveToChildEvent(f, pos) == updateSelected([f EXCEPT !.iconsMousePos = pos])

\* ---- the wheel -----------------------------------------------------------
\* The use lambda of scrollByWheelEvent on one ScrollState with the delta.
UseWheel_Unclamped(state, delta) ==
    LET now == state.x.cur
        next == now - delta
    IN  IF next # now
        THEN [stopAnimation(state) EXCEPT !.x = Value(next, next),
                                          !.animationStart = FALSE]
        ELSE state
UseWheel(state, delta) ==
    LET now == state.x.cur
        used == now - delta
        next == Clamp(used, 0, state.max)
    IN  IF next # now
        THEN [stopAnimation(state) EXCEPT !.x = Value(next, next),
                                          !.animationStart = FALSE]
        ELSE state

\* StickersListFooter::scrollByWheelEvent. e: angleDelta and pixelDelta.
scrollByWheelEvent(f, e) ==
    LET horizontal_ == e.angleDelta[1] # 0
        vertical == e.angleDelta[2] # 0
        delta == IF horizontal_
                 THEN (IF f.rtl THEN -1 ELSE 1)
                      * (IF e.pixelDelta[1] # 0 THEN e.pixelDelta[1]
                         ELSE e.angleDelta[1])
                 ELSE (IF e.pixelDelta[2] # 0 THEN e.pixelDelta[2]
                       ELSE e.angleDelta[2])
        index == f.selected.index
        inner == /\ f.subiconsExpanded
                 /\ f.icons[index + 1] = AllEmojiSectionSetId
        f1 == [f EXCEPT !.horizontal = @ \/ horizontal_,
                        !.footerLast.handled = TRUE,
                        !.footerLast.delta = delta,
                        !.footerLast.axis =
                            IF inner THEN "subicons" ELSE "icons",
                        !.footerLast.iconX = f.iconState.x,
                        !.footerLast.subiconX = f.subiconState.x]
        f2 == IF inner
              THEN [f1 EXCEPT !.subiconState = UseWheel(@, delta)]
              ELSE [f1 EXCEPT !.iconState = UseWheel(@, delta)]
        moved == f2.iconState # f.iconState
                 \/ f2.subiconState # f.subiconState
    IN  IF ~horizontal_ /\ ~vertical THEN f
        ELSE IF moved THEN updateSelected(f2) ELSE f2

\* StickersListFooter::eventHook for a QEvent::Wheel.
eventHook(f, e) ==
    IF Len(f.icons) # 0 /\ f.selected.kind = "Icon" /\ f.pressed = OverNone
    THEN scrollByWheelEvent(f, e)
    ELSE f

(***************************************************************************)
(* Part III.  The voice message of a Document: its waveform, its seek link, *)
(* its status text and its icon; and the file list of EditCaptionBox.       *)
(***************************************************************************)
VARIABLES
    waveform,            \* the arguments of PaintWaveform: the number of
                         \* samples and the available width
    bars                 \* the bars the last PaintWaveform drew, left to right

waveVars == <<waveform, bars>>

\* ---- PaintWaveform -------------------------------------------------------
msgWaveformBar == 2      \* st::msgWaveformBar
msgWaveformSkip == 1     \* st::msgWaveformSkip

\* What maxValue holds for the next bar once a bar was drawn at sample i: the
\* sample itself when it was not counted in the bar drawn (a bar's maximum
\* is kept as the set of the samples it is taken over).
WaveformCarry_Always(sum, barCount, i) == {i}
WaveformCarry(sum, barCount, i) ==
    IF sum < (barCount + 1) \div 2 THEN {} ELSE {i}

\* The loop of PaintWaveform from sample i on: sum and barLeft are the loop's
\* variables, maxOf the samples maxValue was taken over so far.
RECURSIVE PaintWaveformLoop(_, _, _, _, _, _, _)
PaintWaveformLoop(wfSize, barCount, i, barLeft, sum, maxOf, drawn) ==
    IF i >= wfSize THEN drawn
    ELSE IF sum + barCount < wfSize
    THEN PaintWaveformLoop(wfSize, barCount, i + 1, barLeft, sum + barCount,
                           maxOf \cup {i}, drawn)
    ELSE
    LET sum1 == sum + barCount - wfSize
        bar == [left |-> barLeft,
                samples |-> IF sum1 < (barCount + 1) \div 2
                            THEN maxOf \cup {i} ELSE maxOf]
    IN  PaintWaveformLoop(wfSize, barCount, i + 1,
                          barLeft + msgWaveformBar + msgWaveformSkip, sum1,
                          WaveformCarry(sum1, barCount, i),
                          Append(drawn, bar))

\* PaintWaveform for a waveform of wfSize samples: the bars it fills.
PaintWaveform(wfSize, availableWidth) ==
    LET barCount == Min(availableWidth
                            \div (msgWaveformBar + msgWaveformSkip),
                        wfSize)
    IN  PaintWaveformLoop(wfSize, barCount, 0, 0, 0, {}, <<>>)

NotPainted == <<[left |-> -1, samples |-> {}]>>

WaveIdle ==
    /\ waveform = [size |-> 1, availableWidth |-> 0]
    /\ bars = NotPainted

\* ---- Document: a file, a song or a voice message -------------------------
VARIABLES
    data,                \* Document::_data and the item: the DocumentData
                         \* fields the element reads
    components,          \* the components createComponents selected
    voice,               \* the HistoryDocumentVoice component
    player,              \* Media::Player::instance(): the state of the
                         \* Voice and of the Song track
    statusSize,          \* File::_statusSize
    activeLink,          \* the link under the cursor (ClickHandler's active)
    docLast              \* what the last Document handler computed

documentVars ==
    <<data, components, voice, player, statusSize, activeLink, docLast>>

DocumentState ==
    [data |-> data, components |-> components, voice |-> voice,
     player |-> player, statusSize |-> statusSize,
     activeLink |-> activeLink, last |-> docLast]

DocumentCommit(d) ==
    /\ data' = d.data
    /\ components' = d.components
    /\ voice' = d.voice
    /\ player' = d.player
    /\ statusSize' = d.statusSize
    /\ activeLink' = d.activeLink
    /\ docLast' = d.last

\* A proportion n / d as the code computes it in float64.
Frac(n, d) == [n |-> n, d |-> d]
FracZero == Frac(0, 1)
FracOne == Frac(1, 1)
\* std::clamp(n / float64(d), 0., 1.) and the zero a zero length gives.
FracClamp(n, d) ==
    IF d = 0 \/ n <= 0 THEN FracZero
    ELSE IF n >= d THEN FracOne
    ELSE Frac(n, d)

NoLink == "none"
NoPlayback == [exists |-> FALSE]
NoText == [played |-> -1, total |-> -1]

\* No component at all: what a handler that touches none of them records.
NoComponents ==
    [voice |-> FALSE, named |-> FALSE, thumbed |-> FALSE, captioned |-> FALSE]

DocumentOp(name) ==
    [op |-> name, link |-> NoLink, text |-> "none", computed |-> 0,
     statusSet |-> FALSE, before |-> 0, showPause |-> FALSE,
     icon |-> "none", progress |-> FracZero, override |-> NoText,
     finishSeeking |-> <<>>, wasSeeking |-> FALSE, inWaveform |-> FALSE,
     repaint |-> FALSE, captionAt |-> <<>>, transcribeAt |-> <<>>,
     textAt |-> <<>>, upon |-> FALSE, was |-> NoComponents,
     ownMedia |-> FALSE, groupId |-> FALSE, captionEmpty |-> FALSE,
     asked |-> 0, maxWidth |-> 0, size |-> <<>>, optimal |-> <<>>]

DocumentBegin(d, name) == [d EXCEPT !.last = DocumentOp(name)]

\* Ui::FileStatusSizeReady, Loaded and Failed: three values above every
\* offset, in the order of the header.
FileStatusSizeReady == 1000
FileStatusSizeLoaded == 1001
FileStatusSizeFailed == 1002

\* ---- the style of a file bubble ------------------------------------------
msgFileLayout ==
    [paddingLeft |-> 1, paddingTop |-> 2, paddingRight |-> 1,
     paddingBottom |-> 1, thumbSize |-> 2, nameTop |-> 2, linkTop |-> 3]
msgFileThumbLayout ==
    [paddingLeft |-> 1, paddingTop |-> 2, paddingRight |-> 1,
     paddingBottom |-> 1, thumbSize |-> 3, nameTop |-> 2, linkTop |-> 3]
msgFileLayoutGrouped ==
    [paddingLeft |-> 1, paddingTop |-> 1, paddingRight |-> 1,
     paddingBottom |-> 1, thumbSize |-> 2, nameTop |-> 1, linkTop |-> 2]
msgFileThumbLayoutGrouped ==
    [paddingLeft |-> 1, paddingTop |-> 1, paddingRight |-> 1,
     paddingBottom |-> 1, thumbSize |-> 3, nameTop |-> 1, linkTop |-> 2]
msgFileTopMinus == 1             \* st::msgFileTopMinus
msgWaveformMin == 1              \* st::msgWaveformMin
msgWaveformMax == 1              \* st::msgWaveformMax
historyTranscribeSkip == 1       \* st::historyTranscribeSkip
historyTranscribeSize == 1       \* voice->transcribe->size(), both ways
historyAudioDownloadShift == 1   \* st::historyAudioDownloadShift
historyAudioDownloadSize == 1    \* st::historyAudioDownloadSize
semiboldFontHeight == 1          \* st::semiboldFont->height
linkWidth == 2                   \* thumbed->_linkw
TranscribeHeight == 1            \* transcribeText.countHeight(captionw)

FileLayout(thumbed, mode) ==
    IF mode = "Full"
    THEN (IF thumbed THEN msgFileThumbLayout ELSE msgFileLayout)
    ELSE (IF thumbed THEN msgFileThumbLayoutGrouped
          ELSE msgFileLayoutGrouped)

\* style::rtlrect(x, y, w, h, outerw): the left edge of the rectangle.
rtlrectLeft(isRtl, x, w, outerw) == IF isRtl THEN outerw - x - w ELSE x

\* ---- the DocumentData and the player -------------------------------------
Document_isVoiceMessage(d) == d.data.type = "voice"
\* DocumentData::isAudioFile is false for a voice message.
Document_isAudioFile(d) == d.data.type = "song"
Document_dataLoaded(d) == d.data.loaded

Document_downloadInCorner(d) ==
    /\ Document_isAudioFile(d)
    /\ d.data.allowsForward
    /\ d.data.canBeStreamed
    /\ ~d.data.inappPlaybackFailed

\* Media::Player::IsStoppedOrStopping, IsPausedOrPausing and ShowPauseIcon.
IsStoppedOrStopping(state) == state \in {"Stopped", "Stopping"}
IsPausedOrPausing(state) == state \in {"Paused", "Pausing"}
ShowPauseIcon(state) ==
    ~IsStoppedOrStopping(state) /\ ~IsPausedOrPausing(state)

\* state.id == AudioMsgId(_data, _realParent->fullId(), ...): the track is
\* this document in this message.
IsThisTrack(state) == state.id = "this"

\* ---- HistoryDocumentVoice ------------------------------------------------
Voice_ensurePlayback(v) ==
    IF v.playback.exists THEN v
    ELSE [v EXCEPT !.playback =
             [exists |-> TRUE, position |-> 0,
              progress |-> Value(FracZero, FracZero),
              animating |-> FALSE]]

Voice_checkPlaybackFinished(v) ==
    IF v.playback.exists /\ ~v.playback.animating
    THEN [v EXCEPT !.playback = NoPlayback]
    ELSE v

Voice_startSeeking(v) ==
    [v EXCEPT !.seeking = TRUE, !.seekingCurrent = v.seekingStart]

Voice_stopSeeking_Kept(v) == v
Voice_stopSeeking(v) == [v EXCEPT !.seeking = FALSE]

\* ---- Document::setStatusSize and updateStatusText ------------------------
Document_setStatusSize(d, newSize) ==
    [d EXCEPT !.statusSize = newSize, !.last.statusSet = TRUE]

\* The status value of the transfer alone.
TransferStatus_LoadedFirst(d) ==
    IF Document_dataLoaded(d) THEN FileStatusSizeLoaded
    ELSE FileStatusSizeReady
TransferStatus(d) ==
    IF d.data.status \in {"FileDownloadFailed", "FileUploadFailed"}
    THEN FileStatusSizeFailed
    ELSE IF d.data.uploading THEN d.data.uploadOffset
    ELSE IF d.data.loading THEN d.data.loadOffset
    ELSE IF Document_dataLoaded(d) THEN FileStatusSizeLoaded
    ELSE FileStatusSizeReady

\* The playback of a voice message while its track is active: the progress
\* the waveform animates to.
Voice_updatePlayback(v, state) ==
    LET was == v.playback.exists
        v1 == Voice_ensurePlayback(v)
        prg == FracClamp(state.position, state.length)
        v2 == IF ~was \/ state.position # v1.playback.position
              THEN [v1 EXCEPT
                      !.playback.progress =
                          IF v1.playback.position < state.position
                          THEN start(v1.playback.progress, prg)
                          ELSE Value(FracZero, prg),
                      !.playback.position = state.position,
                      !.playback.animating = TRUE]
              ELSE v1
    IN  [v2 EXCEPT !.lastDurationMs =
                       (state.length * 1000) \div state.frequency]

\* The track updateStatusText looks at: none for a plain file.
StatusTrack(d) ==
    IF Document_isVoiceMessage(d) THEN "Voice"
    ELSE IF Document_isAudioFile(d) THEN "Song"
    ELSE "None"

TrackActive(d, type) ==
    /\ type # "None"
    /\ IsThisTrack(d.player[type])
    /\ ~IsStoppedOrStopping(d.player[type].state)

Document_updateStatusText(d) ==
    LET type == StatusTrack(d)
        active == TrackActive(d, type)
        state == d.player[type]
        d1 == IF type = "Voice" /\ d.components.voice
              THEN [d EXCEPT !.voice =
                       IF active THEN Voice_updatePlayback(@, state)
                       ELSE Voice_checkPlaybackFinished(@)]
              ELSE d
        computed == IF active
                    THEN -1 - (state.position \div state.frequency)
                    ELSE TransferStatus(d)
        pause == IF active THEN ShowPauseIcon(state.state) ELSE FALSE
        showPause == IF type # "None" /\ ~pause /\ IsThisTrack(state)
                     THEN state.seeking ELSE pause
        d2 == [d1 EXCEPT !.last.computed = computed,
                         !.last.before = d.statusSize,
                         !.last.showPause = showPause]
    IN  IF computed # d.statusSize
        THEN Document_setStatusSize(d2, computed)
        ELSE d2

\* ---- Document::textState --------------------------------------------------
\* Document::countCurrentSize: the height of the element.
Document_height(d, flags, mode) ==
    LET st == FileLayout(d.components.thumbed, mode)
        hasTranscribe == d.components.voice /\ d.voice.transcribeLength > 0
        captioned == d.components.captioned
    IN  st.paddingTop + st.thumbSize + st.paddingBottom
        - (IF flags.top THEN 0 ELSE msgFileTopMinus)
        + (IF hasTranscribe
           THEN TranscribeHeight
                + (IF captioned THEN mediaCaptionSkip
                   ELSE IF flags.bottom THEN msgPaddingBottom ELSE 0)
           ELSE 0)
        + (IF captioned
           THEN CaptionHeight + (IF flags.bottom THEN msgPaddingBottom ELSE 0)
           ELSE 0)

Document_cornerDownloadTextState(d, px, py, width, flags, mode, isRtl) ==
    IF \/ Document_dataLoaded(d)
       \/ d.data.loadedInMediaCache
       \/ ~Document_downloadInCorner(d)
    THEN NoLink
    ELSE
    LET st == FileLayout(FALSE, mode)
        topMinus == IF flags.top THEN 0 ELSE msgFileTopMinus
        shift == historyAudioDownloadShift
        size == historyAudioDownloadSize
    IN  IF Contains(rtlrectLeft(isRtl, st.paddingLeft + shift, size, width),
                    st.paddingTop - topMinus + shift, size, size, px, py)
        THEN (IF d.data.loading THEN "cancell" ELSE "savel")
        ELSE NoLink

\* The result of a hit test: the link and the text the point is over.
Hit(d, link, text) ==
    [d EXCEPT !.last.link = link, !.last.text = text, !.activeLink = link]

\* The point is handed to getState of the text (the transcription or the
\* caption) whose origin is (x, y) and whose width is w.
TextHit(d, text, x, y, w, h, px, py) ==
    [Hit(d, NoLink, text) EXCEPT
        !.last.textAt = <<x, y, w>>,
        !.last.upon = Text_getState(px - x, py - y, w, h)]

\* The voice track is this document in this message and plays or is paused.
VoiceTrackHere(d) ==
    /\ IsThisTrack(d.player.Voice)
    /\ ~IsStoppedOrStopping(d.player.Voice.state)

Document_textState(d0, px, py, width, flags, mode, isRtl) ==
    IF width < msgPaddingLeft + msgPaddingRight + 1
    THEN Hit(d0, NoLink, "none")
    ELSE
    LET loaded_ == Document_dataLoaded(d0)
        d == Document_updateStatusText(d0)
        topMinus == IF flags.top THEN 0 ELSE msgFileTopMinus
        thumbed == d.components.thumbed
        st == FileLayout(thumbed, mode)
        nameleft == st.paddingLeft + st.thumbSize + st.paddingRight
        nametop == st.nameTop - topMinus
        nameright == st.paddingLeft
        linktop == st.linkTop - topMinus
        bottom0 == st.paddingTop + st.thumbSize + st.paddingBottom - topMinus
        rthumbX == rtlrectLeft(isRtl, st.paddingLeft, st.thumbSize, width)
        rthumbY == st.paddingTop - topMinus
        innerSize == msgFileLayout.thumbSize
        innerX == rthumbX + (st.thumbSize - innerSize) \div 2
        innerY == rthumbY + (st.thumbSize - innerSize) \div 2
        busy == d.data.loading \/ d.data.uploading
        corner == Document_cornerDownloadTextState(d, px, py, width, flags,
                                                   mode, isRtl)
        isVoice == d.components.voice
        namewidth == width - nameleft - nameright
                     - (IF isVoice /\ d.voice.transcribe
                        THEN historyTranscribeSkip + historyTranscribeSize
                        ELSE 0)
        waveformbottom == st.paddingTop - topMinus
                          + msgWaveformMax + msgWaveformMin
        transcribeLength == IF isVoice THEN d.voice.transcribeLength ELSE 0
        transcribeHeight == IF transcribeLength > 0 THEN TranscribeHeight
                            ELSE 0
        bottom1 == bottom0 + transcribeHeight
        captioned == d.components.captioned
        captionw == width - msgPaddingLeft - msgPaddingRight
        bottom2 == bottom1 + (IF captioned /\ transcribeHeight > 0
                              THEN mediaCaptionSkip ELSE 0)
        painth == Document_height(d, flags, mode) - transcribeHeight
                  - (IF captioned
                     THEN (IF transcribeHeight > 0 THEN mediaCaptionSkip
                           ELSE 0)
                          + CaptionHeight
                          + (IF flags.bottom THEN msgPaddingBottom ELSE 0)
                     ELSE IF transcribeHeight > 0 /\ flags.bottom
                     THEN msgPaddingBottom ELSE 0)
        till == IF isVoice THEN nameleft + namewidth ELSE width
    IN  IF thumbed /\ busy
           /\ Contains(rthumbX, rthumbY, st.thumbSize, st.thumbSize, px, py)
        THEN Hit(d, "cancell", "none")
        ELSE IF thumbed /\ d.data.status # "FileUploadFailed"
                /\ Contains(rtlrectLeft(isRtl, nameleft, linkWidth, width),
                            linktop, linkWidth, semiboldFontHeight, px, py)
        THEN Hit(d, IF busy THEN "linkcancell"
                    ELSE IF Document_dataLoaded(d) THEN "linkopenwithl"
                    ELSE "linksavel", "none")
        ELSE IF ~thumbed /\ corner # NoLink
        THEN Hit(d, corner, "none")
        ELSE IF ~thumbed /\ busy
                /\ Contains(innerX, innerY, innerSize, innerSize, px, py)
                /\ ~Document_downloadInCorner(d)
        THEN Hit(d, "cancell", "none")
        ELSE IF isVoice /\ d.voice.transcribe
                /\ Contains(nameleft + namewidth + historyTranscribeSkip,
                            st.paddingTop - topMinus, historyTranscribeSize,
                            historyTranscribeSize, px, py)
        THEN Hit(d, "transcribe", "none")
        ELSE IF isVoice
                /\ Contains(nameleft, nametop, namewidth,
                            waveformbottom - nametop, px, py)
                /\ VoiceTrackHere(d)
        THEN Hit([d EXCEPT !.voice.seekingStart =
                      IF d.voice.seeking THEN @
                      ELSE Frac(px - nameleft, namewidth)],
                 "seekl", "none")
        ELSE IF transcribeHeight > 0 /\ py >= bottom0
                /\ py < bottom0 + transcribeHeight
        THEN TextHit(d, "transcribe", msgPaddingLeft, bottom0, captionw,
                     TranscribeHeight, px, py)
        ELSE IF captioned /\ py >= bottom2
        THEN TextHit(d, "caption", msgPaddingLeft, bottom2, captionw,
                     CaptionHeight, px, py)
        ELSE IF /\ Contains(0, 0, till, painth, px, py)
                /\ (~d.data.loading \/ Document_downloadInCorner(d))
                /\ ~d.data.uploading
                /\ ~d.data.isNull
        THEN Hit(d, IF loaded_ \/ d.data.canBePlayed THEN "openl"
                    ELSE "savel", "none")
        ELSE Hit(d, NoLink, "none")

\* The waveform rectangle of textState holds the point.
InWaveform(d, px, py, width, flags, mode) ==
    LET topMinus == IF flags.top THEN 0 ELSE msgFileTopMinus
        st == FileLayout(d.components.thumbed, mode)
        nameleft == st.paddingLeft + st.thumbSize + st.paddingRight
        nametop == st.nameTop - topMinus
        namewidth == width - nameleft - st.paddingLeft
                     - (IF d.voice.transcribe
                        THEN historyTranscribeSkip + historyTranscribeSize
                        ELSE 0)
    IN  /\ d.components.voice
        /\ width >= msgPaddingLeft + msgPaddingRight + 1
        /\ Contains(nameleft, nametop, namewidth,
                    st.paddingTop - topMinus + msgWaveformMax
                        + msgWaveformMin - nametop, px, py)

\* ---- Document::draw ------------------------------------------------------
\* DocumentMedia::automaticLoad: the download it may start.
DocumentMedia_automaticLoad(d, autoLoad) ==
    IF autoLoad /\ ~d.data.loaded /\ ~d.data.loading /\ ~d.data.uploading
       /\ d.data.status = "FileReady"
    THEN [d EXCEPT !.data.loading = TRUE, !.data.loadOffset = 0]
    ELSE d

\* The icon in the centre of the circle of a document without a thumbnail.
FileIcon_CancelInCorner(d, cornerDownload, showPause, loaded_) ==
    IF d.data.waitingForAlbum THEN "waiting"
    ELSE IF d.data.loading \/ d.data.uploading THEN "cancel"
    ELSE IF showPause THEN "pause"
    ELSE IF loaded_ \/ d.data.canBePlayed
    THEN (IF d.data.canBePlayed THEN "play"
          ELSE IF d.data.isImage THEN "image" ELSE "document")
    ELSE "download"
FileIcon(d, cornerDownload, showPause, loaded_) ==
    IF d.data.waitingForAlbum THEN "waiting"
    ELSE IF ~cornerDownload /\ (d.data.loading \/ d.data.uploading)
    THEN "cancel"
    ELSE IF showPause THEN "pause"
    ELSE IF loaded_ \/ d.data.canBePlayed
    THEN (IF d.data.canBePlayed THEN "play"
          ELSE IF d.data.isImage THEN "image" ELSE "document")
    ELSE "download"

\* The progress the waveform of a voice message is painted with.
VoiceProgress_Player(d, outbg) ==
    IF d.voice.playback.exists THEN d.voice.playback.progress.cur
    ELSE FracZero
VoiceProgress(d, outbg) ==
    IF ~outbg /\ ~d.voice.playback.exists /\ d.data.hasUnreadMediaFlag
    THEN FracOne
    ELSE IF d.voice.seeking THEN d.voice.seekingCurrent
    ELSE IF d.voice.playback.exists THEN d.voice.playback.progress.cur
    ELSE FracZero

\* Ui::FormatPlayedText(SafeRound(progress * lastDurationMs) / 1000,
\* lastDurationMs / 1000): the two numbers of seconds of the text.
VoiceStatusOverride(progress, lastDurationMs) ==
    [played |-> Round(progress.n * lastDurationMs, progress.d) \div 1000,
     total |-> lastDurationMs \div 1000]

\* The width the waveform is painted in.
WaveformWidth(d, width, mode) ==
    LET st == FileLayout(d.components.thumbed, mode)
    IN  width - (st.paddingLeft + st.thumbSize + st.paddingRight)
        - st.paddingLeft
        - (IF d.voice.transcribe
           THEN historyTranscribeSkip + historyTranscribeSize ELSE 0)
        + msgWaveformSkip

\* The end of Document::draw: the transcription of a voice message and the
\* caption are painted below the file, d4 being the document after the file
\* was painted.
Document_drawTexts(d4, width, flags, mode) ==
    LET st == FileLayout(d4.components.thumbed, mode)
        bottom == st.paddingTop + st.thumbSize + st.paddingBottom
                  - (IF flags.top THEN 0 ELSE msgFileTopMinus)
        captionw == width - msgPaddingLeft - msgPaddingRight
        hasTranscribe == d4.components.voice /\ d4.voice.transcribeLength > 0
        captiontop == bottom + (IF hasTranscribe
                                THEN TranscribeHeight + mediaCaptionSkip
                                ELSE 0)
    IN  [d4 EXCEPT
            !.last.transcribeAt =
                IF hasTranscribe
                THEN <<msgPaddingLeft, bottom, captionw, TranscribeHeight>>
                ELSE <<>>,
            !.last.captionAt =
                IF d4.components.captioned
                THEN <<msgPaddingLeft, captiontop, captionw, CaptionHeight>>
                ELSE <<>>]

Document_draw(d0, width, flags, mode, outbg, autoLoad) ==
    IF width < msgPaddingLeft + msgPaddingRight + 1 THEN d0
    ELSE
    LET cornerDownload == Document_downloadInCorner(d0)
        d1 == IF ~d0.data.canBePlayed THEN DocumentMedia_automaticLoad(d0, autoLoad)
              ELSE d0
        loaded_ == Document_dataLoaded(d1)
        d2 == Document_updateStatusText(d1)
        showPause == d2.last.showPause
        d3 == IF d2.components.thumbed THEN [d2 EXCEPT !.last.icon = "thumb"]
              ELSE [d2 EXCEPT !.last.icon =
                       FileIcon(d2, cornerDownload, showPause, loaded_)]
        progress == VoiceProgress(d3, outbg)
        d4 == IF d3.components.voice
              THEN [d3 EXCEPT
                      !.last.progress = progress,
                      !.last.override =
                          IF d3.voice.seeking
                          THEN VoiceStatusOverride(progress,
                                                   d3.voice.lastDurationMs)
                          ELSE NoText]
              ELSE d3
    IN  Document_drawTexts(d4, width, flags, mode)

\* ---- Document::updatePressed, clickHandlerPressedChanged -----------------
Document_updatePressed(d, px, width) ==
    IF d.components.voice /\ d.voice.seeking
    THEN LET st == IF d.components.thumbed THEN msgFileThumbLayout
                   ELSE msgFileLayout
             nameleft == st.paddingLeft + st.thumbSize + st.paddingRight
             nameright == st.paddingLeft
         IN  [d EXCEPT !.voice.seekingCurrent =
                           FracClamp(px - nameleft,
                                     width - nameleft - nameright),
                       !.last.repaint = TRUE]
    ELSE d

\* Media::Player::Instance::finishSeeking(type, progress): the engine moves
\* the track to the proportion.
finishSeeking(d, progress) ==
    [d EXCEPT !.player.Voice.position =
                  (progress.n * d.player.Voice.length) \div progress.d,
              !.player.Voice.seeking = FALSE,
              !.last.finishSeeking = Append(@, progress)]

Document_clickHandlerPressedChanged(d0, p, isPressed) ==
    LET d == [d0 EXCEPT !.last.wasSeeking = d0.voice.seeking]
    IN
    IF ~d.components.voice THEN d
    ELSE IF isPressed /\ p = "seekl" /\ ~d.voice.seeking
    THEN [d EXCEPT !.voice = Voice_startSeeking(@)]
    ELSE IF ~isPressed /\ d.voice.seeking
    THEN LET state == d.player.Voice
             currentProgress == d.voice.seekingCurrent
             d1 == IF IsThisTrack(state) /\ state.length # 0
                   THEN [finishSeeking(d, currentProgress) EXCEPT
                           !.voice = [Voice_ensurePlayback(@) EXCEPT
                               !.playback.position = 0,
                               !.playback.progress =
                                   Value(currentProgress, currentProgress)]]
                   ELSE d
         IN  [d1 EXCEPT !.voice = Voice_stopSeeking(@)]
    ELSE d

\* ---- Document::voiceProgressAnimationCallback ----------------------------
Document_voiceProgressAnimationCallback(d, finished) ==
    IF d.components.voice /\ d.voice.playback.exists
    THEN [d EXCEPT !.voice.playback.animating = ~finished,
                   !.voice.playback.progress =
                       IF finished THEN finish(@) ELSE @,
                   !.last.repaint = TRUE]
    ELSE d

\* ---- createComponents ----------------------------------------------------
\* The components of a document given its data (a voice message, a song or
\* another file; with or without a thumbnail; with or without the name of
\* an executable; Data::IsExecutableName is not part of the sources) and a
\* caption.
createComponents_ThumbOfExecutable(dat, caption) ==
    [voice |-> dat.type = "voice",
     named |-> dat.type # "voice",
     thumbed |-> dat.type # "voice" /\ dat.hasThumbnail /\ dat.type # "song",
     captioned |-> caption]
createComponents(dat, caption) ==
    [voice |-> dat.type = "voice",
     named |-> dat.type # "voice",
     thumbed |-> /\ dat.type # "voice" /\ dat.hasThumbnail
                 /\ dat.type # "song" /\ ~dat.executableName,
     captioned |-> caption]

\* Document::countOptimalSize, what it does to the components and to the
\* transcription of a voice message. ownMedia: _parent->media() == this;
\* groupId: the message is part of an album; premium and textLength: the
\* session is premium, and the length of the text the transcription entry
\* of the message gives (0: none is shown).
Document_countOptimalSize(d0, ownMedia, groupId, premium, textLength) ==
    LET d == [d0 EXCEPT !.last.was = d0.components,
                        !.last.ownMedia = ownMedia,
                        !.last.groupId = groupId]
        d1 == IF ~ownMedia /\ ~groupId
              THEN [d EXCEPT !.components.captioned = FALSE]
              ELSE d
    IN  IF ~d1.components.voice THEN d1
        ELSE IF ~premium
        THEN [d1 EXCEPT !.voice.transcribe = FALSE,
                        !.voice.transcribeLength = 0]
        ELSE [d1 EXCEPT !.voice.transcribe = TRUE,
                        !.voice.transcribeLength = textLength]

\* Document::parentTextUpdated. captionEmpty: createCaption() is empty.
Document_parentTextUpdated(d0, ownMedia, groupId, captionEmpty) ==
    LET d == [d0 EXCEPT !.last.was = d0.components,
                        !.last.ownMedia = ownMedia,
                        !.last.groupId = groupId,
                        !.last.captionEmpty = captionEmpty]
        hasCaption == (ownMedia \/ groupId) /\ ~captionEmpty
    IN  [d EXCEPT !.components.captioned = hasCaption]

NoVoice ==
    [seeking |-> FALSE, seekingStart |-> FracZero,
     seekingCurrent |-> FracZero, playback |-> NoPlayback,
     lastDurationMs |-> 0, transcribe |-> FALSE, transcribeLength |-> 0]

StoppedTrack ==
    [id |-> "none", state |-> "Stopped", position |-> 0, length |-> 0,
     frequency |-> 1, seeking |-> FALSE]

ReadyData ==
    [type |-> "file", status |-> "FileReady", loading |-> FALSE,
     uploading |-> FALSE, loaded |-> FALSE, loadOffset |-> 0,
     uploadOffset |-> 0, loadedInMediaCache |-> FALSE,
     allowsForward |-> FALSE, canBeStreamed |-> FALSE,
     inappPlaybackFailed |-> FALSE, canBePlayed |-> FALSE,
     waitingForAlbum |-> FALSE, isImage |-> FALSE, isNull |-> FALSE,
     hasUnreadMediaFlag |-> FALSE, waveformSize |-> 1,
     hasThumbnail |-> FALSE, executableName |-> FALSE]

\* A document nothing happens to.
DocumentIdle ==
    /\ data = ReadyData
    /\ components = createComponents(ReadyData, FALSE)
    /\ voice = NoVoice
    /\ player = [Voice |-> StoppedTrack, Song |-> StoppedTrack]
    /\ statusSize = FileStatusSizeReady
    /\ activeLink = NoLink
    /\ docLast = DocumentOp("create")

\* ---- EditCaptionBox ------------------------------------------------------
VARIABLES
    isAllowedEditMedia,  \* EditCaptionBox::_isAllowedEditMedia
    albumType,           \* EditCaptionBox::_albumType
    preparedList,        \* EditCaptionBox::_preparedList
    content,             \* what _content previews: the item or a file
    photoMedia,          \* _photoMedia is set: the item shows a photo
    saveRequestId,       \* EditCaptionBox::_saveRequestId (0: none)
    editRequests,        \* the ids of the EditCaption requests in flight
    requestCounter,      \* the last request id the api gave out
    boxError,            \* EditCaptionBox::_error, the kind of its text
    fieldError,          \* _field shows its error
    boxClosed,           \* closeBox() was called
    boxAlive,            \* the box is not destroyed
    boxLast              \* what the last handler of the box did

boxVars ==
    <<isAllowedEditMedia, albumType, preparedList, content, photoMedia,
      saveRequestId, editRequests, requestCounter, boxError, fieldError,
      boxClosed, boxAlive, boxLast>>

BoxState ==
    [isAllowedEditMedia |-> isAllowedEditMedia, albumType |-> albumType,
     preparedList |-> preparedList, content |-> content,
     photoMedia |-> photoMedia, saveRequestId |-> saveRequestId,
     editRequests |-> editRequests, requestCounter |-> requestCounter,
     boxError |-> boxError, fieldError |-> fieldError,
     boxClosed |-> boxClosed, boxAlive |-> boxAlive, last |-> boxLast]

BoxCommit(b) ==
    /\ isAllowedEditMedia' = b.isAllowedEditMedia
    /\ albumType' = b.albumType
    /\ preparedList' = b.preparedList
    /\ content' = b.content
    /\ photoMedia' = b.photoMedia
    /\ saveRequestId' = b.saveRequestId
    /\ editRequests' = b.editRequests
    /\ requestCounter' = b.requestCounter
    /\ boxError' = b.boxError
    /\ fieldError' = b.fieldError
    /\ boxClosed' = b.boxClosed
    /\ boxAlive' = b.boxAlive
    /\ boxLast' = b.last

\* Ui::PreparedList: an error and the files.
PreparedList(error, files) == [error |-> error, files |-> files]
EmptyList == PreparedList("None", <<>>)
\* Ui::PreparedFile: its type and, for a video, whether it is sent as a GIF.
PreparedFile(type, isGifv) == [type |-> type, isGifv |-> isGifv]

BoxOp(name) ==
    [op |-> name, list |-> EmptyList, before |-> EmptyList,
     result |-> FALSE, rebuilt |-> FALSE, toast |-> FALSE,
     sent |-> "none", pending |-> FALSE, itemExists |-> TRUE,
     textLength |-> 0, limitShown |-> FALSE, failure |-> "none"]

BoxBegin(b, name) ==
    [b EXCEPT !.last = [BoxOp(name) EXCEPT
                           !.before = b.preparedList,
                           !.pending = b.saveRequestId # 0]]

\* Ui::PreparedFile::canBeInAlbumType.
canBeInAlbumType(file, album) ==
    CASE album = "PhotoVideo" -> file.type \in {"Photo", "Video"}
      [] album = "Music" -> file.type = "Music"
      [] album = "File" -> file.type \in {"Photo", "File"}
      [] OTHER -> FALSE

\* ListFromMimeData: the list of the first url, or of the image of the data
\* when the urls give none.
ListFromMimeData(mime) ==
    LET result == IF mime.hasUrls THEN mime.urlList
                  ELSE PreparedList("EmptyFile", <<>>)
    IN  IF result.error = "None" THEN result
        ELSE IF mime.hasImage /\ ~mime.imageIsNull
        THEN PreparedList("None", <<PreparedFile("Photo", FALSE)>>)
        ELSE result

\* EditCaptionBox::rebuildPreview.
EditCaptionBox_rebuildPreview(b) ==
    [b EXCEPT !.content = IF b.preparedList.files = <<>> THEN "item"
                          ELSE b.preparedList.files[1].type,
              !.last.rebuilt = TRUE]

\* EditCaptionBox::setPreparedList; last.result is what it returns.
EditCaptionBox_setPreparedList_NoAlbumCheck(b, list) ==
    IF ~b.isAllowedEditMedia THEN b
    ELSE IF list.error # "None" \/ list.files = <<>> THEN b
    ELSE EditCaptionBox_rebuildPreview(
             [b EXCEPT !.preparedList = list, !.last.result = TRUE])
EditCaptionBox_setPreparedList(b, list) ==
    IF ~b.isAllowedEditMedia THEN b
    ELSE IF list.error # "None" \/ list.files = <<>> THEN b
    ELSE
    LET file == list.files[1]
        invalidForAlbum == b.albumType # "None"
                           /\ ~canBeInAlbumType(file, b.albumType)
        list1 == IF b.albumType = "PhotoVideo" /\ file.type = "Video"
                 THEN [list EXCEPT !.files[1].isGifv = FALSE]
                 ELSE list
    IN  IF invalidForAlbum THEN [b EXCEPT !.last.toast = TRUE]
        ELSE EditCaptionBox_rebuildPreview(
                 [b EXCEPT !.preparedList = list1, !.last.result = TRUE])

\* EditCaptionBox::fileFromClipboard.
EditCaptionBox_fileFromClipboard(b, mime) ==
    EditCaptionBox_setPreparedList(
        [b EXCEPT !.last.list = ListFromMimeData(mime)],
        ListFromMimeData(mime))

\* The callback of the file dialog the Edit button and Ctrl+O open:
\* PreparedFileFromFilesDialog gives the list only if checkResult accepts
\* it, and setPreparedList takes it.
EditCaptionBox_fileDialogResult(b, list) ==
    IF list.error # "None" \/ Len(list.files) # 1 THEN b
    ELSE IF b.albumType # "None"
            /\ ~canBeInAlbumType(list.files[1], b.albumType)
    THEN [b EXCEPT !.last.toast = TRUE]
    ELSE EditCaptionBox_setPreparedList([b EXCEPT !.last.list = list], list)

\* The handler of _photoEditorOpens (setupPhotoEditorEventHandler): the
\* editor opens on the prepared file, or else on the large image of the
\* item's photo; accepted modifications (mods) of the item's photo make it
\* the prepared list.
EditCaptionBox_photoEditorOpens(b, largeLoaded, mods) ==
    IF b.preparedList.files # <<>>
    THEN EditCaptionBox_rebuildPreview([b EXCEPT !.boxError = ""])
    ELSE IF b.photoMedia /\ largeLoaded
    THEN IF mods
         THEN EditCaptionBox_rebuildPreview(
                  [b EXCEPT !.boxError = "",
                            !.preparedList =
                                PreparedList("None",
                                             <<PreparedFile("Photo",
                                                            FALSE)>>)])
         ELSE [b EXCEPT !.boxError = ""]
    ELSE b

\* EditCaptionBox::keyPressEvent with Ctrl held: E opens the photo editor,
\* O the file dialog (whose result is list).
EditCaptionBox_keyPressEvent(b, key, largeLoaded, mods, list) ==
    IF key = "E" THEN EditCaptionBox_photoEditorOpens(b, largeLoaded, mods)
    ELSE IF key = "O" THEN EditCaptionBox_fileDialogResult(b, list)
    ELSE b

\* Data::PremiumLimits::captionLengthCurrent().
captionLengthCurrent == 2

\* EditCaptionBox::validateLength for a text of the length: the text fits,
\* or else the box of the reached limit is shown.
EditCaptionBox_validateLength_OneMore(textLength) ==
    LET remove == textLength - captionLengthCurrent
    IN  remove <= 1
EditCaptionBox_validateLength(textLength) ==
    LET remove == textLength - captionLengthCurrent
    IN  remove <= 0

\* EditCaptionBox::save. itemExists: the session still has the message;
\* textLength: the length of the text of the field. A prepared file
\* replaces the media of the item (editMedia) and the box closes, otherwise
\* the caption is edited by a request the box remembers.
EditCaptionBox_save(b, itemExists, textLength) ==
    IF b.saveRequestId # 0 THEN b
    ELSE IF ~itemExists THEN [b EXCEPT !.boxError = "deleted"]
    ELSE IF ~EditCaptionBox_validateLength(textLength)
    THEN [b EXCEPT !.last.limitShown = TRUE]
    ELSE IF b.preparedList.files # <<>>
    THEN IF b.albumType # "None"
            /\ ~canBeInAlbumType(b.preparedList.files[1], b.albumType)
         THEN [b EXCEPT !.boxError = "album"]
         ELSE [b EXCEPT !.last.sent = "editMedia",
                        !.preparedList = EmptyList,
                        !.boxClosed = TRUE]
    ELSE [b EXCEPT !.last.sent = "editCaption",
                   !.requestCounter = @ + 1,
                   !.editRequests = @ \cup {b.requestCounter + 1},
                   !.saveRequestId = b.requestCounter + 1]

\* The done and the fail handler save gives to Api::EditCaption, run for
\* the answer to the request id.
EditCaptionBox_saveDone(b, id) ==
    [b EXCEPT !.editRequests = @ \ {id},
              !.saveRequestId = 0,
              !.boxClosed = TRUE]
EditCaptionBox_saveFail_MarkerKept(b, id, error) ==
    LET b1 == [b EXCEPT !.editRequests = @ \ {id},
                        !.last.failure = error]
    IN  IF error = "DEFAULT" THEN [b1 EXCEPT !.boxError = "edit"]
        ELSE IF error = "MESSAGE_NOT_MODIFIED"
        THEN [b1 EXCEPT !.boxClosed = TRUE]
        ELSE IF error = "MESSAGE_EMPTY" THEN [b1 EXCEPT !.fieldError = TRUE]
        ELSE [b1 EXCEPT !.boxError = "edit"]
EditCaptionBox_saveFail(b, id, error) ==
    LET b1 == [b EXCEPT !.editRequests = @ \ {id},
                        !.saveRequestId = 0,
                        !.last.failure = error]
    IN  IF error = "DEFAULT" THEN [b1 EXCEPT !.boxError = "edit"]
        ELSE IF error = "MESSAGE_NOT_MODIFIED"
        THEN [b1 EXCEPT !.boxClosed = TRUE]
        ELSE IF error = "MESSAGE_EMPTY" THEN [b1 EXCEPT !.fieldError = TRUE]
        ELSE [b1 EXCEPT !.boxError = "edit"]

\* The box is destroyed: the callback save added to lifetime() cancels the
\* request that is pending.
EditCaptionBox_destroy(b) ==
    IF b.saveRequestId # 0
    THEN [b EXCEPT !.editRequests = @ \ {b.saveRequestId},
                   !.saveRequestId = 0,
                   !.boxAlive = FALSE]
    ELSE [b EXCEPT !.boxAlive = FALSE]

\* What the constructor leaves of the requests and the errors.
BoxFresh ==
    /\ saveRequestId = 0
    /\ editRequests = {}
    /\ requestCounter = 0
    /\ boxError = ""
    /\ fieldError = FALSE
    /\ boxClosed = FALSE
    /\ boxAlive = TRUE

\* A box nothing happens to.
BoxIdle ==
    /\ isAllowedEditMedia = FALSE
    /\ albumType = "None"
    /\ preparedList = EmptyList
    /\ content = "item"
    /\ photoMedia = FALSE
    /\ BoxFresh
    /\ boxLast = BoxOp("create")

\* ---- sizes in an album ---------------------------------------------------
\* Ui::Text::String::countHeight(width) of a caption of CaptionLength
\* characters: the lines of one character per pixel the width breaks it
\* into, each one pixel high.
CaptionLength == 4
Text_countHeight(w) ==
    IF w <= 0 THEN CaptionLength ELSE (CaptionLength + w - 1) \div w

\* Document::sizeForGroupingOptimal(maxWidth) and
\* Document::sizeForGrouping(width), the latter with maxWidth() of the
\* element: <<width, height>>.
Document_sizeForGroupingOptimal(d, maxWidth_) ==
    LET st == IF d.components.thumbed THEN msgFileThumbLayoutGrouped
              ELSE msgFileLayoutGrouped
        height == st.paddingTop + st.thumbSize + st.paddingBottom
        captionw == maxWidth_ - msgPaddingLeft - msgPaddingRight
    IN  <<maxWidth_,
          IF d.components.captioned
          THEN height + Text_countHeight(captionw) ELSE height>>
Document_sizeForGrouping_AskedWidth(d, width, maxWidth_) ==
    LET st == IF d.components.thumbed THEN msgFileThumbLayoutGrouped
              ELSE msgFileLayoutGrouped
        height == st.paddingTop + st.thumbSize + st.paddingBottom
        captionw == width - msgPaddingLeft - msgPaddingRight
    IN  <<width,
          IF d.components.captioned
          THEN height + Text_countHeight(captionw) ELSE height>>
Document_sizeForGrouping(d, width, maxWidth_) ==
    LET st == IF d.components.thumbed THEN msgFileThumbLayoutGrouped
              ELSE msgFileLayoutGrouped
        height == st.paddingTop + st.thumbSize + st.paddingBottom
        captionw == width - msgPaddingLeft - msgPaddingRight
    IN  <<maxWidth_,
          IF d.components.captioned
          THEN height + Text_countHeight(captionw) ELSE height>>

\* An album asks both sizes of the element for one width.
Document_sizesForGrouping(d, width, maxWidth_) ==
    [d EXCEPT !.last.asked = width,
              !.last.maxWidth = maxWidth_,
              !.last.size = Document_sizeForGrouping(d, width, maxWidth_),
              !.last.optimal = Document_sizeForGroupingOptimal(d, width)]

\* ---- LocalStickersManager ------------------------------------------------
VARIABLES
    installedLocallySets, \* LocalStickersManager::_installedLocallySets
    getRequests,          \* GetStickerSet requests in flight, by set id
    installRequests,      \* InstallStickerSet requests in flight, by set id
    locallyInstalled,     \* the sets Data::Stickers was told to install
                          \* locally and not to undo since
    managerLast           \* what the last handler of the manager did

managerVars ==
    <<installedLocallySets, getRequests, installRequests, locallyInstalled,
      managerLast>>

ManagerState ==
    [installedLocallySets |-> installedLocallySets,
     getRequests |-> getRequests, installRequests |-> installRequests,
     locallyInstalled |-> locallyInstalled, last |-> managerLast]

ManagerCommit(m) ==
    /\ installedLocallySets' = m.installedLocallySets
    /\ getRequests' = m.getRequests
    /\ installRequests' = m.installRequests
    /\ locallyInstalled' = m.locallyInstalled
    /\ managerLast' = m.last

\* The sets the session may know, and the requests of one kind the model
\* lets be in flight for one set at a time.
StickerSetIds == {1, 2}
MaxInFlight == 2

ManagerOp(name, setId) == [op |-> name, setId |-> setId, archived |-> FALSE]
ManagerBegin(m, name, setId) == [m EXCEPT !.last = ManagerOp(name, setId)]

LocalStickersManager_isInstalledLocally(m, setId) ==
    setId \in m.installedLocallySets

\* LocalStickersManager::sendInstallRequest: the request is sent, then the
\* set is installed locally.
LocalStickersManager_sendInstallRequest(m, setId) ==
    [m EXCEPT !.installRequests[setId] = @ + 1,
              !.installedLocallySets = @ \cup {setId},
              !.locallyInstalled = @ \cup {setId}]

\* LocalStickersManager::install. known: the session has the set; full:
\* the set is loaded and has stickers.
LocalStickersManager_install(m, setId, known, full) ==
    IF ~known THEN m
    ELSE IF full THEN LocalStickersManager_sendInstallRequest(m, setId)
    ELSE [m EXCEPT !.getRequests[setId] = @ + 1]

\* The done handler of the GetStickerSet request of install.
LocalStickersManager_getStickerSetDone(m, setId) ==
    LocalStickersManager_sendInstallRequest(
        [m EXCEPT !.getRequests[setId] = @ - 1], setId)

\* The done and the fail handler of the InstallStickerSet request.
LocalStickersManager_installDone(m, setId, archived) ==
    [m EXCEPT !.installRequests[setId] = @ - 1,
              !.last.archived = archived]
LocalStickersManager_installFail(m, setId) ==
    [m EXCEPT !.installRequests[setId] = @ - 1,
              !.installedLocallySets = @ \ {setId},
              !.locallyInstalled = @ \ {setId}]

\* A manager nothing happens to.
ManagerIdle ==
    /\ installedLocallySets = {}
    /\ getRequests = [id \in StickerSetIds |-> 0]
    /\ installRequests = [id \in StickerSetIds |-> 0]
    /\ locallyInstalled = {}
    /\ managerLast = ManagerOp("create", 0)

laterVars == <<waveVars, documentVars, boxVars, managerVars>>
LaterIdle == WaveIdle /\ DocumentIdle /\ BoxIdle /\ ManagerIdle


(***************************************************************************)
(* Actions of Part I: one per handler, event or notification.              *)
(***************************************************************************)
MediaStep(s) == Commit(s) /\ UNCHANGED <<footerVars, laterVars>>

DrawInputs ==
    [autoLoad : BOOLEAN, valid : BOOLEAN, ready : BOOLEAN, locked : BOOLEAN,
     paused : BOOLEAN]
QuietInputs ==
    [autoLoad : BOOLEAN, valid : {TRUE}, ready : {FALSE}, locked : {FALSE},
     paused : {FALSE}]
StreamInputs ==
    [autoLoad : {FALSE}, valid : BOOLEAN, ready : BOOLEAN, locked : BOOLEAN,
     paused : {FALSE}]
WideLayouts == {l \in Layouts : l.width = MaxWidth}
\* A photo without caption and bubble, at full and at too small a width.
PlainLayouts ==
    {l \in Layouts : ~l.caption /\ ~l.bubble /\ ~l.bubbleTop
                     /\ ~l.bubbleBottom /\ ~l.inWebPage}
Points == (0..(MaxWidth - 1)) \X (0..(MaxHeight - 1))
\* The left and the right column of the element.
EdgePoints == {0, MaxWidth - 1} \X (0..(MaxHeight - 1))
\* A photo alone, and one that is a whole bubble of its own.
TierLayouts ==
    {l \in WideLayouts : /\ ~l.caption /\ ~l.inWebPage
                         /\ l.bubbleTop = l.bubble
                         /\ l.bubbleBottom = l.bubble}
Corner == {<<0, 0>>}
\* The geometries an album gives to a part.
Geometries == {<<0, 0, MaxWidth, MaxHeight>>, <<1, 1, 2, 2>>}

PhotoCreate ==
    /\ ~photoAlive
    /\ \E kind \in {"single", "userpic", "grouped"} :
          MediaStep(Photo_create(Begin(MediaState, "create"),
                                 IF kind = "userpic" THEN 1 ELSE 0,
                                 kind = "grouped"))

PhotoDestroy ==
    /\ photoAlive
    /\ MediaStep(Photo_destroy(Begin(MediaState, "destroy")))

PhotoDraw(lays, ins) ==
    /\ photoAlive /\ ~grouped
    /\ \E lay \in lays, in \in ins : MediaStep(Photo_draw(MediaState, lay, in))

PhotoDrawGrouped(geometries, cornerSets, autoLoads) ==
    /\ photoAlive /\ grouped
    /\ \E g \in geometries, corners \in cornerSets, autoLoad \in autoLoads :
          MediaStep(Photo_drawGrouped(MediaState, g[3], g[4], corners,
                                      autoLoad))

PhotoTextState(lays, points) ==
    /\ photoAlive /\ ~grouped
    /\ \E lay \in lays, pt \in points, info \in BOOLEAN :
          MediaStep(Photo_textState(MediaState, lay, pt[1], pt[2], info))

PhotoGetStateGrouped(geometries, points) ==
    /\ photoAlive /\ grouped
    /\ \E g \in geometries, pt \in points :
          MediaStep(Photo_getStateGrouped(MediaState, g[1], g[2], g[3], g[4],
                                          pt[1], pt[2]))

PhotoPlayAnimation ==
    /\ photoAlive
    /\ \E autoplay \in BOOLEAN, valid \in BOOLEAN, ready \in BOOLEAN :
          MediaStep(Photo_playAnimation(Begin(MediaState, "playAnimation"),
                                        autoplay, valid, ready))

PhotoStopAnimation ==
    /\ photoAlive
    /\ MediaStep(Photo_stopAnimation(Begin(MediaState, "stopAnimation")))

PhotoCheckAnimation ==
    /\ photoAlive
    /\ MediaStep(Photo_checkAnimation(Begin(MediaState, "checkAnimation")))

PhotoUnload ==
    /\ photoAlive
    /\ MediaStep(Element_unloadHeavyPart(Begin(MediaState, "unloadHeavyPart"),
                                         "photo"))

UnloadAll ==
    /\ heavyViewParts # {}
    /\ MediaStep(unloadHeavyViewParts(Begin(MediaState, "unloadAll")))

\* The streaming player produces an update for the main thread.
StreamEmit ==
    /\ streamed.open
    /\ \E ev \in StreamEvents \ streamEvents :
          MediaStep([Begin(MediaState, "emit") EXCEPT
                        !.streamEvents = @ \cup {ev}])

StreamDeliver ==
    \E ev \in streamEvents, animationsPaused \in BOOLEAN :
       MediaStep(Photo_handleStreaming(MediaState, ev, animationsPaused))

PhotoOpenClicked == MediaStep(Photo_openClicked(MediaState))

PhotoCancelClicked == MediaStep(Photo_cancelClicked(MediaState))

DocCreate ==
    /\ ~docAlive
    /\ MediaStep([Begin(MediaState, "docCreate") EXCEPT !.docAlive = TRUE])

DocDestroy ==
    /\ docAlive
    /\ MediaStep(Document_destroy(Begin(MediaState, "docDestroy")))

\* Document::draw / textState / dataProgress: each starts by creating the
\* media view.
DocDraw ==
    /\ docAlive
    /\ MediaStep(Document_ensureDataMediaCreated(Begin(MediaState, "docDraw")))

DocUnload ==
    /\ docAlive
    /\ MediaStep(Element_unloadHeavyPart(Begin(MediaState, "docUnload"),
                                         "document"))

DocCancelClicked == MediaStep(Document_cancelClicked(MediaState))

\* ---- the environment: the fetch layer, the uploader, the settings --------
TierReady ==
    \E t \in Tiers :
        /\ ~images[t]
        /\ MediaStep([Begin(MediaState, "tierReady") EXCEPT
                !.images[t] = TRUE,
                !.loading = IF t = TierLarge THEN FALSE ELSE @,
                !.notified = [highest |-> Max(@.highest, t),
                              ordered |-> /\ @.ordered
                                          /\ t >= @.highest
                                          /\ ~@.pending,
                              pending |-> TRUE]])

LoadFailed ==
    /\ loading
    /\ MediaStep([Begin(MediaState, "loadFailed") EXCEPT !.loading = FALSE])

SetUploading ==
    MediaStep([Begin(MediaState, "setUploading") EXCEPT
                  !.uploading = ~@, !.loading = FALSE])

ToggleAutoplay ==
    MediaStep([Begin(MediaState, "toggleAutoplay") EXCEPT
                  !.autoplayEnabled = ~@])

KeepAliveExpire ==
    /\ keptAlive
    /\ MediaStep([Begin(MediaState, "keepAliveExpire") EXCEPT
                     !.keptAlive = FALSE])

(***************************************************************************)
(* Actions of Part II: one per event handler and animation callback.        *)
(* The animations manager runs, in each frame, the callback of every        *)
(* animation that is running; input events arrive between frames.          *)
(***************************************************************************)
FooterStep(f) == FooterCommit(f) /\ UNCHANGED <<mediaVars, laterVars>>

\* No callback of the current frame is still to run.
Quiet == due = {}

RefreshIcons(lists, setIds, modes) ==
    /\ Quiet
    /\ \E newIcons \in lists, setId \in setIds, animations \in modes :
          FooterStep(refreshIcons(FooterBegin(FooterState, "refreshIcons"),
                                  newIcons, setId, animations))

ResizeEvent(widths) ==
    /\ Quiet
    /\ \E w \in widths \ {footerWidth} :
          FooterStep(resizeEvent(FooterBegin(FooterState, "resizeEvent"), w))

ValidateSelectedIcon(setIds, modes) ==
    /\ Quiet
    /\ \E setId \in setIds, animations \in modes :
          FooterStep(validateSelectedIcon(
                         FooterBegin(FooterState, "validateSelectedIcon"),
                         setId, animations))

ProcessHideFinished ==
    /\ Quiet
    /\ FooterStep(processHideFinished(
                      FooterBegin(FooterState, "processHideFinished")))

MousePress(points, buttons) ==
    /\ Quiet
    /\ \E pos \in points, leftButton \in buttons :
          FooterStep(mousePressEvent(
                         FooterBegin(FooterState, "mousePressEvent"),
                         pos, leftButton))

MouseMove(points) ==
    /\ Quiet
    /\ \E pos \in points :
          FooterStep(mouseMoveEvent(
                         FooterBegin(FooterState, "mouseMoveEvent"), pos))

MouseRelease(points) ==
    /\ Quiet
    /\ \E pos \in points :
          FooterStep(mouseReleaseEvent(
                         FooterBegin(FooterState, "mouseReleaseEvent"), pos))

LeaveToChild(points) ==
    /\ Quiet
    /\ \E pos \in points :
          FooterStep(leaveToChildEvent(
                         FooterBegin(FooterState, "leaveToChildEvent"), pos))

Wheel(events) ==
    /\ Quiet
    /\ \E e \in events :
          FooterStep(eventHook(FooterBegin(FooterState, "wheel"), e))

\* A frame begins: time advances for every running animation and each of
\* them owes its callback.
Frame ==
    LET running ==
            (IF subiconsWidthAnimation.animating THEN {"width"} ELSE {})
            \cup (IF iconState.animating THEN {"icons"} ELSE {})
            \cup (IF subiconState.animating THEN {"subicons"} ELSE {})
        tick(state) ==
            IF state.animating /\ state.animationStart
            THEN [state EXCEPT
                     !.elapsed = Min(@ + 1, stickerIconMove)]
            ELSE state
    IN  /\ Quiet
        /\ running # {}
        /\ FooterStep([FooterBegin(FooterState, "frame") EXCEPT
               !.due = running,
               !.iconState = tick(@),
               !.subiconState = tick(@),
               !.subiconsWidthAnimation =
                   IF @.animating
                   THEN [@ EXCEPT !.elapsed = Min(@ + 1, slideDuration)]
                   ELSE @])

\* The frame callback of _subiconsWidthAnimation: the animation computes its
\* value, stops when its time is over, and calls updateEmojiWidthCallback.
subiconsWidthFrame(f) ==
    LET a == f.subiconsWidthAnimation
        finished == f.animationsDisabled \/ a.elapsed >= f.slideDuration
        value == IF finished THEN a.to
                 ELSE a.from + linear(a.to - a.from, a.elapsed,
                                      f.slideDuration)
    IN  IF ~a.animating THEN f
        ELSE updateEmojiWidthCallback(
                 [f EXCEPT !.subiconsWidthAnimation =
                      [a EXCEPT !.value = value,
                                !.animating = ~finished,
                                !.elapsed = IF finished THEN 0 ELSE @]])
WidthAnimationFrame ==
    /\ "width" \in due
    /\ FooterStep(subiconsWidthFrame(
           [FooterBegin(FooterState, "widthFrame") EXCEPT
               !.due = @ \ {"width"}]))

\* The frame callback of a ScrollState's animation (ScrollState's
\* constructor): update(), then animationCallback(now) decides whether the
\* animation goes on.
ScrollFrame(f, state) ==
    LET r == animationCallback(f, state)
    IN  IF ~state.animating THEN state
        ELSE IF r[2] THEN r[1] ELSE stopAnimation(r[1])

IconsAnimationFrame ==
    /\ "icons" \in due
    /\ LET f == [FooterBegin(FooterState, "iconsFrame") EXCEPT
                    !.due = @ \ {"icons"}]
       IN  FooterStep([f EXCEPT !.iconState = ScrollFrame(f, @)])

SubiconsAnimationFrame ==
    /\ "subicons" \in due
    /\ LET f == [FooterBegin(FooterState, "subiconsFrame") EXCEPT
                    !.due = @ \ {"subicons"}]
       IN  FooterStep([f EXCEPT !.subiconState = ScrollFrame(f, @)])

\* ---- the inputs of the footer's events -----------------------------------
MaxDuration == 2
BigDelta == 30
SmallDelta == 3

\* An emoji footer: Recent, All Emoji, and four sets of custom emoji.
EmojiIcons ==
    <<RecentEmojiSectionSetId, AllEmojiSectionSetId, 1, 2, 3, 4>>
\* A stickers footer: Featured, Faved and two sets.
StickersIcons == <<FeaturedSetId, FavedSetId, 1, 2>>
\* An emoji footer with a cell for each section.
SectionIcons == [k \in 1..(SectionSymbols + 1) |-> EmojiSectionSetId(k - 1)]

WheelEvents ==
    {[angleDelta |-> <<0, d>>, pixelDelta |-> <<0, 0>>] :
        d \in {-BigDelta, 0, BigDelta}}
    \cup {[angleDelta |-> <<1, 0>>, pixelDelta |-> <<SmallDelta, 0>>]}

(***************************************************************************)
(* Specifications.                                               *)
(***************************************************************************)
vars == <<mediaVars, footerVars, laterVars>>

\* The footer as its constructor leaves it.
FooterConstructedWith(search, settings) ==
    /\ icons = <<>>
    /\ barSelection = FALSE
    /\ searchButtonVisible \in search
    /\ settingsButtonVisible \in settings
    /\ searchShown = FALSE
    /\ singleWidth = 0
    /\ subiconsWidth = 0
    /\ subiconsExpanded = FALSE
    /\ subiconsWidthAnimation = NoAnimation
    /\ iconState = NewScrollState
    /\ subiconState = NewScrollState
    /\ selected = OverNone
    /\ pressed = OverNone
    /\ iconsMousePos = <<0, 0>>
    /\ iconsMouseDown = <<0, 0>>
    /\ activeByScrollId = 0
    /\ horizontal = FALSE
    /\ due = {}
    /\ footerLast = FooterOp("create")
FooterConstructed == FooterConstructedWith({FALSE}, {FALSE})

\* A footer nothing happens to.
FooterUntouched ==
    /\ FooterConstructed
    /\ footerWidth = 0
    /\ animationsDisabled = FALSE
    /\ stickerIconMove = 1
    /\ slideDuration = 1

FooterIdle ==
    /\ FooterConstructed
    /\ LaterIdle
    /\ footerWidth = 0
    /\ rtl = FALSE
    /\ animationsDisabled = FALSE
    /\ stickerIconMove = 1
    /\ slideDuration = 1

\* The state after Photo::Photo and Document::Document, before any paint.
InitMedia ==
    /\ photoAlive = TRUE
    /\ \E kind \in {"single", "userpic", "grouped"} :
          /\ serviceWidth = IF kind = "userpic" THEN 1 ELSE 0
          /\ grouped = (kind = "grouped")
    /\ dataMedia = FALSE
    /\ streamed = NoStream
    /\ imageCache = NoCache
    /\ groupedCache = NoGroupedCache
    /\ docAlive = TRUE
    /\ docDataMedia = FALSE
    /\ heavyViewParts = {}
    /\ images = [t \in Tiers |-> FALSE]
    /\ loading = FALSE
    /\ uploading = FALSE
    /\ videoPlaybackFailed = FALSE
    /\ autoplayEnabled \in BOOLEAN
    /\ keptAlive = FALSE
    /\ streamEvents = {}
    /\ notified = [highest |-> TierNone, ordered |-> TRUE,
                   pending |-> FALSE]
    /\ last = Op("create")

\* Heavy parts, streaming and callbacks: every way a media view or a
\* streaming player is created and dropped.
InitHeavy == InitMedia /\ hasVideo \in BOOLEAN /\ FooterIdle

NextHeavy ==
    \/ PhotoCreate
    \/ PhotoDestroy
    \/ PhotoDraw(PlainLayouts, StreamInputs)
    \/ PhotoDrawGrouped(Geometries, {AllCorners}, {FALSE})
    \/ PhotoTextState(PlainLayouts, Corner)
    \/ PhotoGetStateGrouped(Geometries, Corner)
    \/ PhotoPlayAnimation
    \/ PhotoStopAnimation
    \/ PhotoCheckAnimation
    \/ PhotoUnload
    \/ UnloadAll
    \/ StreamEmit
    \/ StreamDeliver
    \/ DocCreate
    \/ DocDestroy
    \/ DocDraw
    \/ DocUnload
    \/ ToggleAutoplay
    \/ KeepAliveExpire

SpecHeavy == InitHeavy /\ [][NextHeavy]_vars

\* Callbacks against the lifetime of the element: what is still in flight or
\* still clickable when the element is destroyed.
NextCallbacks ==
    \/ PhotoCreate
    \/ PhotoDestroy
    \/ PhotoDraw(PlainLayouts, StreamInputs)
    \/ PhotoPlayAnimation
    \/ PhotoStopAnimation
    \/ StreamEmit
    \/ StreamDeliver
    \/ PhotoOpenClicked
    \/ PhotoCancelClicked
    \/ DocCreate
    \/ DocDestroy
    \/ DocDraw
    \/ DocCancelClicked
    \/ SetUploading

SpecCallbacks == InitHeavy /\ [][NextCallbacks]_vars

\* Tiers: the tiers of a photo without video become available one by one
\* while the element is painted, unloaded and rebuilt.
InitTier == InitMedia /\ hasVideo = FALSE /\ FooterIdle

NextTier ==
    \/ PhotoCreate
    \/ PhotoDestroy
    \/ PhotoDraw(TierLayouts, QuietInputs)
    \/ PhotoDrawGrouped(Geometries, {AllCorners}, BOOLEAN)
    \/ PhotoUnload
    \/ TierReady
    \/ LoadFailed
    \/ KeepAliveExpire

SpecTier == InitTier /\ [][NextTier]_vars

\* Hit tests: the link under a point while the photo loads or uploads.
NextHit ==
    \/ PhotoDraw(PlainLayouts, QuietInputs)
    \/ PhotoDrawGrouped(Geometries, {AllCorners}, BOOLEAN)
    \/ PhotoTextState(Layouts, EdgePoints)
    \/ PhotoGetStateGrouped(Geometries, EdgePoints)
    \/ PhotoCancelClicked
    \/ TierReady
    \/ LoadFailed
    \/ SetUploading

SpecHit == InitTier /\ [][NextHit]_vars

\* A photo and a document nothing happens to.
MediaUntouched ==
    /\ InitMedia
    /\ serviceWidth = 0 /\ grouped = FALSE
    /\ hasVideo = FALSE /\ autoplayEnabled = FALSE

MediaIdle == MediaUntouched /\ LaterIdle

\* The footer of an emoji panel: its icons are set, it is resized and
\* hidden, cells are selected with and without animation and the animations
\* run, the width animation and the scroll animations at their own pace.
FooterWidths == {5, 8}
ScrollSetIds == {3, EmojiSectionSetId(SectionPeople)}
InitFooter ==
    /\ MediaIdle
    /\ FooterConstructed
    /\ footerWidth = 5
    /\ rtl = FALSE
    /\ animationsDisabled = FALSE
    /\ stickerIconMove \in 1..MaxDuration
    /\ slideDuration \in 1..MaxDuration

NextFooter ==
    \/ RefreshIcons({EmojiIcons}, {RecentEmojiSectionSetId}, {"None"})
    \/ ResizeEvent(FooterWidths)
    \/ ValidateSelectedIcon(ScrollSetIds, {"Full", "None"})
    \/ ProcessHideFinished
    \/ Frame
    \/ WidthAnimationFrame
    \/ IconsAnimationFrame
    \/ SubiconsAnimationFrame

SpecFooter == InitFooter /\ [][NextFooter]_vars

\* The footer under the wheel: the mouse hovers a cell, the wheel turns by
\* more and by less than the room that is left, over the strip of icons and
\* over the expanded All Emoji cell.
InitWheel ==
    /\ MediaIdle
    /\ FooterConstructed
    /\ footerWidth = 5
    /\ rtl = FALSE
    /\ animationsDisabled = FALSE
    /\ stickerIconMove = 1
    /\ slideDuration = 1

HoverPoints == {<<3, 0>>}

NextWheel ==
    \/ RefreshIcons({EmojiIcons}, {RecentEmojiSectionSetId}, {"None"})
    \/ ValidateSelectedIcon(ScrollSetIds, {"None"})
    \/ MouseMove(HoverPoints)
    \/ Wheel(WheelEvents)
    \/ Frame
    \/ WidthAnimationFrame

SpecWheel == InitWheel /\ [][NextWheel]_vars

\* The footers of an emoji panel and of a stickers panel: a set is
\* selected by its id, present in the strip or not.
SelectLists == {EmojiIcons, StickersIcons, SectionIcons}
SelectSetIds ==
    {2, 5, RecentSetId, RecentEmojiSectionSetId,
     EmojiSectionSetId(SectionPeople), EmojiSectionSetId(SectionSymbols)}

NextSelect ==
    \/ RefreshIcons(SelectLists, {RecentEmojiSectionSetId, FeaturedSetId},
                    {"None"})
    \/ ValidateSelectedIcon(SelectSetIds, {"None"})
    \/ Frame
    \/ WidthAnimationFrame

SpecSelect == InitWheel /\ [][NextSelect]_vars

(***************************************************************************)
(* Actions and specifications of Part III.                                 *)
(***************************************************************************)
MaxSamples == 8
MaxAvailableWidth == 30

\* Document::draw paints the waveform of a voice message.
PaintVoiceWaveform(sizes, widths) ==
    \E n \in sizes, w \in widths :
        /\ waveform' = [size |-> n, availableWidth |-> w]
        /\ bars' = PaintWaveform(n, w)
        /\ UNCHANGED <<mediaVars, footerVars, documentVars, boxVars, managerVars>>

InitWaveform == MediaIdle /\ FooterIdle

NextWaveform == PaintVoiceWaveform(1..MaxSamples, 0..MaxAvailableWidth)

SpecWaveform == InitWaveform /\ [][NextWaveform]_vars

\* ---- the Document element -------------------------------------------------
\* The media view textState and draw create first, unless the element is
\* too narrow to be hit or painted.
DocumentMediaStep(width, name) ==
    IF width < msgPaddingLeft + msgPaddingRight + 1
    THEN UNCHANGED mediaVars
    ELSE Commit(Document_ensureDataMediaCreated(Begin(MediaState, name)))

BubbleFlags == [top : BOOLEAN, bottom : BOOLEAN]

\* Document::textState for a point of the element.
DocumentTextState(points, widths, flagSet, modes) ==
    \E pt \in points, w \in widths, flags \in flagSet, mode \in modes :
        /\ docAlive
        /\ DocumentCommit(Document_textState(
               [DocumentBegin(DocumentState, "textState") EXCEPT
                   !.last.inWaveform =
                       InWaveform(DocumentState, pt[1], pt[2], w, flags,
                                  mode)],
               pt[1], pt[2], w, flags, mode, rtl))
        /\ DocumentMediaStep(w, "docTextState")
        /\ UNCHANGED <<footerVars, waveVars, boxVars, managerVars>>

\* Document::draw; the waveform of a voice message is painted in the width
\* left of the name.
DocumentDraw(widths, flagSet, modes, outbgs, autoLoads) ==
    \E w \in widths, flags \in flagSet, mode \in modes, outbg \in outbgs,
       autoLoad \in autoLoads :
        /\ docAlive
        /\ DocumentCommit(Document_draw(
               DocumentBegin(DocumentState, "draw"), w, flags, mode, outbg,
               autoLoad))
        /\ DocumentMediaStep(w, "docDraw")
        /\ IF components.voice /\ w >= msgPaddingLeft + msgPaddingRight + 1
           THEN /\ waveform' =
                       [size |-> data.waveformSize,
                        availableWidth |->
                            WaveformWidth(DocumentState, w, mode)]
                /\ bars' = PaintWaveform(data.waveformSize,
                               WaveformWidth(DocumentState, w, mode))
           ELSE UNCHANGED waveVars
        /\ UNCHANGED <<footerVars, boxVars, managerVars>>

DocumentStep(d) ==
    /\ docAlive
    /\ DocumentCommit(d)
    /\ UNCHANGED <<mediaVars, footerVars, waveVars, boxVars, managerVars>>

\* The pointer moves while a button is held.
DocumentUpdatePressed(xs, widths) ==
    \E x \in xs, w \in widths :
        DocumentStep(Document_updatePressed(
            DocumentBegin(DocumentState, "updatePressed"), x, w))

\* ClickHandler::pressed on the link under the cursor, and the release.
DocumentPress ==
    /\ activeLink # NoLink
    /\ DocumentStep(Document_clickHandlerPressedChanged(
           DocumentBegin(DocumentState, "pressed"), activeLink, TRUE))

DocumentRelease ==
    DocumentStep(Document_clickHandlerPressedChanged(
        DocumentBegin(DocumentState, "released"), activeLink, FALSE))

VoiceProgressFrame ==
    \E finished \in BOOLEAN :
        /\ components.voice /\ voice.playback.exists
        /\ voice.playback.animating
        /\ DocumentStep(Document_voiceProgressAnimationCallback(
               DocumentBegin(DocumentState, "voiceProgress"), finished))

\* ---- the environment of a Document ----------------------------------------
\* The player reports a new state of a track.  Playing this voice message
\* marks the message as listened to.
PlayerUpdate(types, states) ==
    \E type \in types, st \in states :
        /\ player[type] # st
        /\ DocumentStep([DocumentBegin(DocumentState, "player") EXCEPT
               !.player[type] = st,
               !.data.hasUnreadMediaFlag =
                   IF type = "Voice" /\ IsThisTrack(st)
                      /\ ~IsStoppedOrStopping(st.state)
                   THEN FALSE ELSE @])

\* The loader and the uploader: a transfer starts, advances, fails or ends.
TransferUpdate(transfers) ==
    \E tr \in transfers :
        /\ [status |-> data.status, loading |-> data.loading,
            uploading |-> data.uploading, loaded |-> data.loaded,
            loadOffset |-> data.loadOffset,
            uploadOffset |-> data.uploadOffset] # tr
        /\ DocumentStep([DocumentBegin(DocumentState, "transfer") EXCEPT
               !.data.status = tr.status,
               !.data.loading = tr.loading,
               !.data.uploading = tr.uploading,
               !.data.loaded = tr.loaded,
               !.data.loadOffset = tr.loadOffset,
               !.data.uploadOffset = tr.uploadOffset])

\* The states a transfer goes through.
MaxOffset == 2
Transfer(status, isLoading, isUploading, isLoaded, offset) ==
    [status |-> status, loading |-> isLoading, uploading |-> isUploading,
     loaded |-> isLoaded,
     loadOffset |-> IF isLoading THEN offset ELSE 0,
     uploadOffset |-> IF isUploading THEN offset ELSE 0]

\* The states of a track: of this document in this message or of another,
\* of the given length in samples.
TrackFrequency == 2
Tracks(ids, states, positions, lengths, seekings) ==
    {[id |-> id, state |-> st, position |-> pos, length |-> len,
      frequency |-> TrackFrequency, seeking |-> sk] :
        id \in ids, st \in states, pos \in positions, len \in lengths,
        sk \in seekings}

\* A document as Document::Document leaves it.
InitDocument(types, thumbs, captions, datas) ==
    /\ MediaUntouched
    /\ FooterUntouched
    /\ WaveIdle /\ ManagerIdle
    /\ BoxIdle
    /\ \E type \in types, hasThumbnail \in thumbs, caption \in captions,
          extra \in datas :
          /\ data = [f \in DOMAIN ReadyData |->
                        IF f = "type" THEN type
                        ELSE IF f = "hasThumbnail" THEN hasThumbnail
                        ELSE IF f \in DOMAIN extra THEN extra[f]
                        ELSE ReadyData[f]]
          /\ components =
                 createComponents(
                     [type |-> type, hasThumbnail |-> hasThumbnail,
                      executableName |->
                          IF "executableName" \in DOMAIN extra
                          THEN extra.executableName ELSE FALSE],
                     caption)
    /\ voice = NoVoice
    /\ player = [Voice |-> StoppedTrack, Song |-> StoppedTrack]
    /\ statusSize = FileStatusSizeReady
    /\ activeLink = NoLink
    /\ docLast = DocumentOp("create")

\* A voice message that plays, is downloaded and is sought in, in both
\* layout directions.
VoiceWidth == 8
VoicePoints == {<<2, 1>>, <<4, 1>>, <<5, 1>>, <<5, 0>>}
VoiceTransfers ==
    {Transfer("FileReady", FALSE, FALSE, FALSE, 0),
     Transfer("FileReady", TRUE, FALSE, FALSE, 1),
     Transfer("FileReady", FALSE, FALSE, TRUE, 0)}
VoiceTracks ==
    Tracks({"this"}, {"Playing"}, {0, 2}, {4}, {FALSE})
        \cup Tracks({"this"}, {"Stopped"}, {0}, {4}, {FALSE})
        \cup Tracks({"other"}, {"Playing"}, {0}, {4}, {FALSE})

InitVoice ==
    /\ InitDocument({"voice"}, {FALSE}, {FALSE},
                    {[hasUnreadMediaFlag |-> TRUE, canBePlayed |-> TRUE]})
    /\ rtl \in BOOLEAN

NextVoice ==
    \/ DocumentTextState(VoicePoints, {VoiceWidth},
                         {[top |-> FALSE, bottom |-> TRUE]}, {"Full"})
    \/ DocumentPress
    \/ DocumentRelease
    \/ VoiceProgressFrame
    \/ PlayerUpdate({"Voice"}, VoiceTracks)
    \/ TransferUpdate(VoiceTransfers)

SpecVoice == InitVoice /\ [][NextVoice]_vars

\* A voice message that is sought in: the pointer presses the waveform,
\* moves and releases while the track plays, ends or is replaced.
SeekPoints == {<<4, 2>>}
SeekTracks ==
    Tracks({"this"}, {"Playing"}, {0, 2}, {4}, {FALSE})
        \cup Tracks({"this"}, {"Playing"}, {0}, {0}, {FALSE})
        \cup Tracks({"this"}, {"Stopped"}, {0}, {4}, {FALSE})
        \cup Tracks({"other"}, {"Playing"}, {0}, {4}, {FALSE})

InitSeeking ==
    /\ InitDocument({"voice"}, {FALSE}, {FALSE},
                    {[hasUnreadMediaFlag |-> TRUE, canBePlayed |-> TRUE]})
    /\ rtl = FALSE

NextSeeking ==
    \/ DocumentTextState(SeekPoints, {VoiceWidth},
                         {[top |-> TRUE, bottom |-> TRUE]}, {"Full"})
    \/ DocumentDraw({VoiceWidth}, {[top |-> TRUE, bottom |-> TRUE]},
                    {"Full"}, BOOLEAN, {FALSE})
    \/ DocumentUpdatePressed({5, 9}, {VoiceWidth})
    \/ DocumentPress
    \/ DocumentRelease
    \/ VoiceProgressFrame
    \/ PlayerUpdate({"Voice"}, SeekTracks)

SpecSeeking == InitSeeking /\ [][NextSeeking]_vars

\* A voice message, a song and a plain file whose transfer and playback
\* change between paints.
StatusTransfers ==
    {Transfer("FileReady", FALSE, FALSE, FALSE, 0),
     Transfer("FileReady", FALSE, FALSE, TRUE, 0),
     Transfer("FileReady", FALSE, TRUE, TRUE, 1),
     Transfer("FileDownloadFailed", FALSE, FALSE, FALSE, 0),
     Transfer("FileUploadFailed", FALSE, FALSE, TRUE, 0)}
        \cup {Transfer("FileReady", TRUE, FALSE, FALSE, o) :
                  o \in 1..MaxOffset}
StatusTracks ==
    Tracks({"this"}, {"Playing"}, {1, 3}, {4}, {FALSE})
        \cup Tracks({"this"}, {"Paused"}, {3}, {4}, BOOLEAN)
        \cup Tracks({"this"}, {"Stopping"}, {3}, {4}, {FALSE})
        \cup Tracks({"other"}, {"Playing"}, {3}, {4}, {FALSE})
StatusDatas ==
    {[canBePlayed |-> FALSE],
     [canBePlayed |-> TRUE, allowsForward |-> TRUE, canBeStreamed |-> TRUE],
     [waitingForAlbum |-> TRUE],
     [isImage |-> TRUE]}

InitStatus ==
    /\ InitDocument({"voice", "song", "file"}, {FALSE}, {FALSE}, StatusDatas)
    /\ rtl = FALSE

\* The track of the kind of the document changes (a voice message is never
\* the Song track, a song or a file never the Voice track).
NextStatus ==
    \/ DocumentDraw({VoiceWidth}, {[top |-> TRUE, bottom |-> TRUE]},
                    {"Full"}, {FALSE}, BOOLEAN)
    \/ TransferUpdate(StatusTransfers)
    \/ (data.type = "voice" /\ PlayerUpdate({"Voice"}, StatusTracks))
    \/ (data.type # "voice" /\ PlayerUpdate({"Song"}, StatusTracks))
    \/ VoiceProgressFrame

SpecStatus == InitStatus /\ [][NextStatus]_vars

\* ---- EditCaptionBox: data is dropped on the box or pasted into it --------
BoxStep(b) ==
    /\ boxAlive
    /\ BoxCommit(b)
    /\ UNCHANGED <<mediaVars, footerVars, waveVars, documentVars,
                   managerVars>>

\* The drop callback of the drag areas.
BoxDrop(mimes) ==
    \E mime \in mimes :
        BoxStep(EditCaptionBox_fileFromClipboard(
            BoxBegin(BoxState, "drop"), mime))

\* The mime data hook of the caption field inserts pasted data.
BoxPaste(mimes) ==
    \E mime \in mimes :
        BoxStep(EditCaptionBox_fileFromClipboard(
            BoxBegin(BoxState, "paste"), mime))

\* The mime data a drag or the clipboard carries: urls whose first file
\* prepares to a list, an image, both or neither.
FileTypes == {"Photo", "Video", "Music", "File"}
UrlLists ==
    {PreparedList("None", <<PreparedFile(type, FALSE)>>) :
         type \in FileTypes}
        \cup {PreparedList("None", <<PreparedFile("Video", TRUE)>>),
              PreparedList("None", <<>>),
              PreparedList("Directory", <<>>),
              PreparedList("TooLargeFile", <<PreparedFile("File", FALSE)>>)}
MimeDatas ==
    {[hasUrls |-> TRUE, urlList |-> l, hasImage |-> FALSE,
      imageIsNull |-> TRUE] : l \in UrlLists}
        \cup {[hasUrls |-> u, urlList |-> PreparedList("Directory", <<>>),
               hasImage |-> TRUE, imageIsNull |-> n] :
                  u \in BOOLEAN, n \in BOOLEAN}
        \cup {[hasUrls |-> FALSE, urlList |-> EmptyList,
               hasImage |-> FALSE, imageIsNull |-> TRUE]}

\* The box of an item that allows or forbids replacing its media, alone or
\* in an album of one of the three kinds.
InitBox ==
    /\ MediaUntouched
    /\ FooterUntouched /\ rtl = FALSE
    /\ WaveIdle /\ ManagerIdle
    /\ DocumentIdle
    /\ isAllowedEditMedia \in BOOLEAN
    /\ albumType \in {"None", "PhotoVideo", "Music", "File"}
    /\ preparedList = EmptyList
    /\ content = "item"
    /\ photoMedia = FALSE
    /\ BoxFresh
    /\ boxLast = BoxOp("create")

NextBox ==
    \/ BoxDrop(MimeDatas)
    \/ BoxPaste(MimeDatas)

SpecBox == InitBox /\ [][NextBox]_vars

\* A single photo painted in layouts that differ in size, radius and
\* corners, between the arrival of its images and the unloading of its
\* heavy part.
NextCache ==
    \/ PhotoDraw(WideLayouts, QuietInputs)
    \/ PhotoUnload
    \/ TierReady

SpecCache == InitTier /\ [][NextCache]_vars

\* A userpic video painted with the player locked or not and painting paused
\* or not, while the player keeps producing frames.
FrozenInputs ==
    [autoLoad : {FALSE}, valid : {TRUE}, ready : BOOLEAN, locked : BOOLEAN,
     paused : BOOLEAN]

NextFrozen ==
    \/ PhotoDraw(PlainLayouts, FrozenInputs)
    \/ PhotoStopAnimation
    \/ StreamEmit
    \/ StreamDeliver
    \/ ToggleAutoplay

SpecFrozen == InitHeavy /\ [][NextFrozen]_vars

\* ---- captions: a photo and a document are painted and hit-tested ---------
\* Document::countOptimalSize and Document::parentTextUpdated, called by the
\* parent element.
DocumentCountOptimalSize(owns, groups, lengths) ==
    \E ownMedia \in owns, groupId \in groups, premium \in BOOLEAN,
       textLength \in lengths :
        DocumentStep(Document_countOptimalSize(
            DocumentBegin(DocumentState, "countOptimalSize"), ownMedia,
            groupId, premium, textLength))

DocumentParentTextUpdated(owns, groups) ==
    \E ownMedia \in owns, groupId \in groups, captionEmpty \in BOOLEAN :
        DocumentStep(Document_parentTextUpdated(
            DocumentBegin(DocumentState, "parentTextUpdated"), ownMedia,
            groupId, captionEmpty))

CaptionWidths == {msgPaddingLeft + msgPaddingRight, MaxWidth}
DocumentModes == {"Full", "Grouped"}
\* The points of an element of the width and the height.
ElementPoints(w, h) == (0..(w - 1)) \X (0..(h - 1))
MaxDocumentHeight ==
    msgFileThumbLayout.paddingTop + msgFileThumbLayout.thumbSize
    + msgFileThumbLayout.paddingBottom + TranscribeHeight + mediaCaptionSkip
    + CaptionHeight + msgPaddingBottom
\* A column of the text, and a point left of the text.
CaptionPoints ==
    ({msgPaddingLeft} \X (0..(MaxDocumentHeight - 1)))
    \cup {<<0, MaxDocumentHeight - msgPaddingBottom - 1>>}
\* A point of the last line of the caption of a photo, one of the padding
\* below it and one of the image.
PhotoCaptionPoints ==
    {<<msgPaddingLeft, MaxHeight - msgPaddingBottom - 1>>,
     <<msgPaddingLeft, MaxHeight - 1>>, <<msgPaddingLeft, 0>>}
\* A photo with a caption in a bubble of its own, the last of the message
\* or not.
CaptionLayouts ==
    {l \in WideLayouts : l.caption /\ l.bubbleTop}

InitCaption ==
    /\ InitDocument({"voice", "file"}, BOOLEAN, BOOLEAN,
                    {[canBePlayed |-> TRUE]})
    /\ rtl = FALSE

NextCaption ==
    \/ PhotoDraw({l \in CaptionLayouts : l.bubbleBottom},
                 {[autoLoad |-> FALSE, valid |-> TRUE, ready |-> FALSE,
                   locked |-> FALSE, paused |-> FALSE]})
    \/ PhotoTextState(CaptionLayouts, PhotoCaptionPoints)
    \/ DocumentDraw({MaxWidth}, {[top |-> TRUE, bottom |-> TRUE]}, {"Full"},
                    {FALSE}, {FALSE})
    \/ DocumentTextState(CaptionPoints, {MaxWidth},
                         {[top |-> TRUE, bottom |-> TRUE]}, {"Full"})
    \/ DocumentCountOptimalSize({TRUE}, {FALSE}, {0, 1})
    \/ DocumentParentTextUpdated({TRUE}, {FALSE})

SpecCaption == InitCaption /\ [][NextCaption]_vars

\* ---- components: documents of every kind are resized and their text is ---
\* updated.
ComponentDatas == {[executableName |-> e] : e \in BOOLEAN}

InitComponents ==
    /\ InitDocument({"voice", "song", "file"}, BOOLEAN, BOOLEAN,
                    ComponentDatas)
    /\ rtl = FALSE

NextComponents ==
    \/ DocumentCountOptimalSize(BOOLEAN, BOOLEAN, {0, 1})
    \/ DocumentParentTextUpdated(BOOLEAN, BOOLEAN)
    \/ DocumentDraw({MaxWidth}, {[top |-> TRUE, bottom |-> TRUE]}, {"Full"},
                    {FALSE}, {FALSE})
    \/ DocumentTextState({<<msgPaddingLeft, MaxDocumentHeight - 1>>},
                         {MaxWidth}, {[top |-> TRUE, bottom |-> TRUE]},
                         {"Full"})

SpecComponents == InitComponents /\ [][NextComponents]_vars

\* The footer of an emoji panel under the mouse: the All Emoji cell is
\* selected with an animation, the mouse presses it and drags, the wheel
\* turns, the panel is hidden.
DragIcons == <<RecentEmojiSectionSetId, AllEmojiSectionSetId, 1>>
DragWidth == 8
InitDrag ==
    /\ MediaIdle
    /\ FooterConstructed
    /\ footerWidth = DragWidth
    /\ rtl = FALSE
    /\ animationsDisabled = FALSE
    /\ stickerIconMove = MaxDuration
    /\ slideDuration = 1

NextDrag ==
    \/ RefreshIcons({DragIcons}, {RecentEmojiSectionSetId}, {"None"})
    \/ ValidateSelectedIcon({EmojiSectionSetId(SectionPeople)}, {"Full"})
    \/ MousePress({<<3, 0>>, <<7, 0>>}, {TRUE})
    \/ MouseMove({<<1, 0>>})
    \/ MouseRelease({<<1, 0>>})
    \/ Wheel({[angleDelta |-> <<0, -BigDelta>>, pixelDelta |-> <<0, 0>>]})
    \/ ProcessHideFinished
    \/ Frame
    \/ WidthAnimationFrame
    \/ IconsAnimationFrame
    \/ SubiconsAnimationFrame

SpecDrag == InitDrag /\ [][NextDrag]_vars

\* The footer of an emoji panel on the animation clock: selections start
\* scroll animations, with animations enabled or globally disabled, and the
\* event loop delivers every frame that is owed.
InitTicks ==
    /\ MediaIdle
    /\ FooterConstructed
    /\ footerWidth = 5
    /\ rtl = FALSE
    /\ animationsDisabled \in BOOLEAN
    /\ stickerIconMove \in 1..MaxDuration
    /\ slideDuration = 1

NextTicks ==
    \/ RefreshIcons({EmojiIcons}, {RecentEmojiSectionSetId}, {"None"})
    \/ ValidateSelectedIcon(ScrollSetIds, {"Full", "None"})
    \/ ProcessHideFinished
    \/ Frame
    \/ WidthAnimationFrame
    \/ IconsAnimationFrame
    \/ SubiconsAnimationFrame

\* The event loop: a running animation gets its next frame, and a callback
\* that is owed is delivered (the step that takes it out of due is the
\* frame callback of that animation).
Delivered(name) == name \in due /\ due' = due \ {name}
SpecTicks ==
    /\ InitTicks
    /\ [][NextTicks]_vars
    /\ WF_vars(Frame)
    /\ WF_due(Delivered("width"))
    /\ WF_due(Delivered("icons"))
    /\ WF_due(Delivered("subicons"))

\* The footer of an emoji panel with or without its Search button: cells
\* are selected with and without animation.
CentreWidth == 7
InitCentre ==
    /\ MediaIdle
    /\ FooterConstructedWith(BOOLEAN, {FALSE})
    /\ footerWidth = CentreWidth
    /\ rtl = FALSE
    /\ animationsDisabled = FALSE
    /\ stickerIconMove = 1
    /\ slideDuration = 1

CentreSetIds == {1, 2, 3, EmojiSectionSetId(SectionPeople)}
NextCentre ==
    \/ RefreshIcons({EmojiIcons}, {RecentEmojiSectionSetId}, {"None"})
    \/ ValidateSelectedIcon(CentreSetIds, {"Full", "None"})
    \/ Frame
    \/ WidthAnimationFrame
    \/ IconsAnimationFrame
    \/ SubiconsAnimationFrame

SpecCentre == InitCentre /\ [][NextCentre]_vars

\* The footer of an emoji panel with its Search and Settings buttons under
\* the mouse: a button is pressed while none is down, on a button, on a
\* cell or outside, the pointer moves a little or far, the button is
\* released.
PressWidth == 8
PressPoints == {<<0, 0>>, <<2, 0>>, <<4, 0>>, <<7, 0>>}
\* one cell away from the row, and far to the left of the widget
MovePoints == {<<4, 1>>, <<-20, 0>>}
InitPress ==
    /\ MediaIdle
    /\ FooterConstructedWith({TRUE}, {TRUE})
    /\ footerWidth = PressWidth
    /\ rtl = FALSE
    /\ animationsDisabled = FALSE
    /\ stickerIconMove = 1
    /\ slideDuration = 1

NextPress ==
    \/ RefreshIcons({DragIcons}, {RecentEmojiSectionSetId}, {"None"})
    \/ ValidateSelectedIcon({EmojiSectionSetId(SectionPeople)}, {"None"})
    \/ (pressed = OverNone /\ MousePress(PressPoints, BOOLEAN))
    \/ MouseMove(MovePoints)
    \/ MouseRelease({<<-20, 0>>})
    \/ Frame
    \/ WidthAnimationFrame

SpecPress == InitPress /\ [][NextPress]_vars

\* Footers of every kind of icon list, one of them holding the All Emoji
\* cell and the cell of an emoji category: any set is validated.
MixedIcons ==
    <<RecentEmojiSectionSetId, AllEmojiSectionSetId,
      EmojiSectionSetId(SectionSymbols), 1>>
SubselectLists == {EmojiIcons, StickersIcons, SectionIcons, MixedIcons}
SubselectSetIds ==
    {1, 5, RecentSetId, RecentEmojiSectionSetId,
     EmojiSectionSetId(SectionPeople), EmojiSectionSetId(SectionSymbols)}
NextSubselect ==
    \/ RefreshIcons(SubselectLists,
                    {RecentEmojiSectionSetId, FeaturedSetId}, {"None"})
    \/ ValidateSelectedIcon(SubselectSetIds, {"None"})
    \/ Frame
    \/ WidthAnimationFrame

SpecSubselect == InitWheel /\ [][NextSubselect]_vars

\* A document in an album: its caption comes and goes, and the album asks
\* its sizes for widths below, at and above the element's maxWidth().
GroupWidths == {3, 4, 6}
DocumentSizesForGrouping(widths, maxWidths) ==
    \E width \in widths, maxWidth_ \in maxWidths :
        DocumentStep(Document_sizesForGrouping(
            DocumentBegin(DocumentState, "sizeForGrouping"), width,
            maxWidth_))

NextGrouping ==
    \/ DocumentCountOptimalSize(BOOLEAN, BOOLEAN, {0, 1})
    \/ DocumentParentTextUpdated(BOOLEAN, BOOLEAN)
    \/ DocumentSizesForGrouping(GroupWidths, GroupWidths)

SpecGrouping == InitComponents /\ [][NextGrouping]_vars

\* The box of any item, a photo or not, that allows or forbids replacing
\* its media: files are dropped, pasted and chosen in the file dialog, the
\* photo editor is opened from the preview and with Ctrl+E, and the box is
\* saved.
BoxKeyPress(keys, lists) ==
    \E key \in keys, largeLoaded \in BOOLEAN, mods \in BOOLEAN,
       list \in lists :
        BoxStep(EditCaptionBox_keyPressEvent(
            BoxBegin(BoxState, "keyPress"), key, largeLoaded, mods, list))

\* _content->modifyRequests() fires _photoEditorOpens.
BoxModifyRequest ==
    \E largeLoaded \in BOOLEAN, mods \in BOOLEAN :
        BoxStep(EditCaptionBox_photoEditorOpens(
            BoxBegin(BoxState, "modifyRequest"), largeLoaded, mods))

\* _content->editRequests() fires _editMediaClicks: the file dialog.
BoxEditRequest(lists) ==
    \E list \in lists :
        BoxStep(EditCaptionBox_fileDialogResult(
            BoxBegin(BoxState, "editRequest"), list))

\* The most ids the model lets the api give out.
MaxSaves == 3
BoxSave(exists, lengths) ==
    \E itemExists \in exists, textLength \in lengths :
        /\ requestCounter < MaxSaves
        /\ BoxStep(EditCaptionBox_save(
               [BoxBegin(BoxState, "save") EXCEPT
                   !.last.itemExists = itemExists,
                   !.last.textLength = textLength],
               itemExists, textLength))

InitEdit ==
    /\ MediaUntouched
    /\ FooterUntouched /\ rtl = FALSE
    /\ WaveIdle /\ ManagerIdle
    /\ DocumentIdle
    /\ isAllowedEditMedia \in BOOLEAN
    /\ albumType \in {"None", "PhotoVideo", "Music", "File"}
    /\ preparedList = EmptyList
    /\ content = "item"
    /\ photoMedia \in BOOLEAN
    /\ BoxFresh
    /\ boxLast = BoxOp("create")

NextEdit ==
    \/ BoxDrop(MimeDatas)
    \/ BoxPaste(MimeDatas)
    \/ BoxKeyPress({"E", "O", "other"}, UrlLists)
    \/ BoxModifyRequest
    \/ BoxEditRequest(UrlLists)
    \/ BoxSave({TRUE}, {0})

SpecEdit == InitEdit /\ [][NextEdit]_vars

\* The footer of an emoji panel whose icon list is refreshed, with icons or
\* with none, at any moment of a press, a drag and a release.
ReleasePoints == {<<1, 0>>, <<7, 0>>}
NextRelease ==
    \/ RefreshIcons({<<>>, DragIcons}, {RecentEmojiSectionSetId}, {"None"})
    \/ MousePress({<<3, 0>>, <<7, 0>>}, {TRUE})
    \/ MouseMove(ReleasePoints)
    \/ MouseRelease(ReleasePoints)

SpecRelease == InitDrag /\ [][NextRelease]_vars

\* The footer of an emoji panel in a left-to-right or a right-to-left
\* layout: a cell is pressed, the pointer drags it and the button is
\* released where the pointer is or elsewhere.
MirrorPoints == {<<1, 0>>, <<3, 0>>, <<5, 0>>}
InitMirror ==
    /\ MediaIdle
    /\ FooterConstructed
    /\ footerWidth = DragWidth
    /\ rtl \in BOOLEAN
    /\ animationsDisabled = FALSE
    /\ stickerIconMove = 1
    /\ slideDuration = 1

NextMirror ==
    \/ RefreshIcons({DragIcons}, {RecentEmojiSectionSetId}, {"None"})
    \/ MousePress(MirrorPoints, {TRUE})
    \/ MouseMove(MirrorPoints)
    \/ MouseRelease(MirrorPoints)

SpecMirror == InitMirror /\ [][NextMirror]_vars

\* ---- the manager of local installs: sets are installed, loaded or not,
\* one after another or while earlier requests are in flight, and the
\* requests are answered in any order.
ManagerStep(m) ==
    /\ ManagerCommit(m)
    /\ UNCHANGED <<mediaVars, footerVars, waveVars, documentVars, boxVars>>

ManagerInstall(ids) ==
    \E setId \in ids, known \in BOOLEAN, full \in BOOLEAN :
        /\ getRequests[setId] + installRequests[setId] < MaxInFlight
        /\ ManagerStep(LocalStickersManager_install(
               ManagerBegin(ManagerState, "install", setId), setId, known,
               full))

GetStickerSetDone ==
    \E setId \in StickerSetIds :
        /\ getRequests[setId] > 0
        /\ ManagerStep(LocalStickersManager_getStickerSetDone(
               ManagerBegin(ManagerState, "getStickerSetDone", setId),
               setId))

\* The request has no fail handler: it only ends.
GetStickerSetFail ==
    \E setId \in StickerSetIds :
        /\ getRequests[setId] > 0
        /\ ManagerStep([ManagerBegin(ManagerState, "getStickerSetFail",
                                     setId)
                           EXCEPT !.getRequests[setId] = @ - 1])

InstallDone ==
    \E setId \in StickerSetIds, archived \in BOOLEAN :
        /\ installRequests[setId] > 0
        /\ ManagerStep(LocalStickersManager_installDone(
               ManagerBegin(ManagerState, "installDone", setId), setId,
               archived))

InstallFail ==
    \E setId \in StickerSetIds :
        /\ installRequests[setId] > 0
        /\ ManagerStep(LocalStickersManager_installFail(
               ManagerBegin(ManagerState, "installFail", setId), setId))

InitManager == MediaIdle /\ FooterIdle

NextManager ==
    \/ ManagerInstall(StickerSetIds)
    \/ GetStickerSetDone
    \/ GetStickerSetFail
    \/ InstallDone
    \/ InstallFail

SpecManager == InitManager /\ [][NextManager]_vars

\* ---- saving: the box of a photo in an album or alone is saved with a
\* caption short or too long, with the message there or gone, while the
\* photo is edited, requests are answered and the box is destroyed.
MaxCaptionLength == 3
EditErrors == {"DEFAULT", "MESSAGE_NOT_MODIFIED", "MESSAGE_EMPTY", "OTHER"}

\* The answer to a request in flight; crl::guard(this) runs the handler
\* only while the box lives.
BoxAnswered(b) ==
    /\ BoxCommit(b)
    /\ UNCHANGED <<mediaVars, footerVars, waveVars, documentVars,
                   managerVars>>

BoxSaveDone ==
    \E id \in editRequests :
        BoxAnswered(IF boxAlive
                    THEN EditCaptionBox_saveDone(
                             BoxBegin(BoxState, "saveDone"), id)
                    ELSE [BoxState EXCEPT !.editRequests = @ \ {id}])

BoxSaveFail(errors) ==
    \E id \in editRequests, error \in errors :
        BoxAnswered(IF boxAlive
                    THEN EditCaptionBox_saveFail(
                             BoxBegin(BoxState, "saveFail"), id, error)
                    ELSE [BoxState EXCEPT !.editRequests = @ \ {id}])

BoxDestroy ==
    BoxStep(EditCaptionBox_destroy(BoxBegin(BoxState, "destroy")))

InitSave ==
    /\ MediaUntouched
    /\ FooterUntouched /\ rtl = FALSE
    /\ WaveIdle /\ ManagerIdle
    /\ DocumentIdle
    /\ isAllowedEditMedia = TRUE
    /\ albumType \in {"None", "PhotoVideo", "Music"}
    /\ preparedList = EmptyList
    /\ content = "item"
    /\ photoMedia = TRUE
    /\ BoxFresh
    /\ boxLast = BoxOp("create")

NextSave ==
    \/ BoxSave(BOOLEAN, 0..MaxCaptionLength)
    \/ BoxSaveDone
    \/ BoxSaveFail(EditErrors)
    \/ BoxDestroy
    \/ BoxModifyRequest

SpecSave == InitSave /\ [][NextSave]_vars

\* The footer of an emoji panel with its Search and Settings buttons, wide
\* enough to show most of the expanded All Emoji cell: the selection of
\* the first or the last category expands the cell and scrolls its inner
\* strip, and the mouse clicks anywhere in the row.
ClickWidth == 16
ClickPoints == {<<x, 0>> : x \in 0..(ClickWidth - 1)}
InitClick ==
    /\ MediaIdle
    /\ FooterConstructedWith({TRUE}, {TRUE})
    /\ footerWidth = ClickWidth
    /\ rtl = FALSE
    /\ animationsDisabled = FALSE
    /\ stickerIconMove = 1
    /\ slideDuration = 1

NextClick ==
    \/ RefreshIcons({DragIcons}, {RecentEmojiSectionSetId}, {"None"})
    \/ ValidateSelectedIcon({EmojiSectionSetId(SectionPeople),
                             EmojiSectionSetId(SectionSymbols)}, {"None"})
    \/ (pressed = OverNone /\ MousePress(ClickPoints, {TRUE}))
    \/ MouseRelease(ClickPoints)
    \/ Frame
    \/ WidthAnimationFrame

SpecClick == InitClick /\ [][NextClick]_vars

\* The narrow footer with both buttons: the mouse is pressed with either
\* button, moved and released over the buttons and the cells.
NextTap ==
    \/ RefreshIcons({<<>>, DragIcons}, {RecentEmojiSectionSetId}, {"None"})
    \/ ValidateSelectedIcon({EmojiSectionSetId(SectionPeople)}, {"None"})
    \/ (pressed = OverNone /\ MousePress(PressPoints, BOOLEAN))
    \/ MouseMove({<<4, 1>>})
    \/ MouseRelease(PressPoints)
    \/ Frame
    \/ WidthAnimationFrame

SpecTap == InitPress /\ [][NextTap]_vars

\* A voice message of a premium account or not (which gives it the
\* transcribe button or takes it away), wide enough for a waveform beside
\* the button: the pointer presses any point of the row, moves and
\* releases while the track plays.
SameSeekWidth == 10
SameSeekXs == 0..(SameSeekWidth - 1)
SameSeekPoints == {<<x, 2>> : x \in SameSeekXs}
SameSeekFlags == {[top |-> TRUE, bottom |-> TRUE]}
SameSeekModes == {"Full", "Grouped"}
NextSameSeek ==
    \/ DocumentCountOptimalSize({TRUE}, {FALSE}, {0})
    \/ DocumentTextState(SameSeekPoints, {SameSeekWidth}, SameSeekFlags,
                         SameSeekModes)
    \/ DocumentUpdatePressed(SameSeekXs, {SameSeekWidth})
    \/ DocumentPress
    \/ DocumentRelease
    \/ PlayerUpdate({"Voice"},
                    Tracks({"this"}, {"Playing"}, {0}, {4}, {FALSE}))

SpecSameSeek == InitSeeking /\ [][NextSameSeek]_vars

\* The footer of an emoji panel asked to select every id from zero to a
\* few above the id of the last category.
MaxSectionSetId == 110
NextSections ==
    \/ RefreshIcons({EmojiIcons}, {RecentEmojiSectionSetId}, {"None"})
    \/ ValidateSelectedIcon(0..MaxSectionSetId, {"None"})
    \/ Frame
    \/ WidthAnimationFrame

SpecSections == InitWheel /\ [][NextSections]_vars

(***************************************************************************)
(* Properties of Part I.                                                   *)
(***************************************************************************)

\* C2: between events a Photo or a Document element is in the registry of
\* heavy view parts if and only if its hasHeavyPart() is true (a destroyed
\* element holds no part), whatever paints, hit tests, playAnimation,
\* stopAnimation, streaming errors, unloads and destructions came before.
C2_RegistryIffHeavyPart ==
    /\ ("photo" \in heavyViewParts) <=> Photo_hasHeavyPart(MediaState)
    /\ ("document" \in heavyViewParts) <=> Document_hasHeavyPart(MediaState)
    /\ ~photoAlive => ~Photo_hasHeavyPart(MediaState)
    /\ ~docAlive => ~Document_hasHeavyPart(MediaState)

\* A streaming error dropped the player, the media view is left: the photo
\* stays in the registry, the unloaded document is out of it.
C2_Witness ==
    /\ last.op = "error" /\ last.ran
    /\ dataMedia /\ ~streamed.open /\ "photo" \in heavyViewParts
    /\ docAlive /\ ~docDataMedia /\ "document" \notin heavyViewParts

\* C5: a streaming error, and a stream that cannot be opened, leave the
\* Photo without a streaming player and its video marked as failed; and no
\* player exists while the photo's video cannot be played, so no paint and
\* no autoplay check has created one for a failed video.
C5_ErrorStopsAndMarksFailed ==
    /\ (last.op = "error" /\ last.ran)
           => (~streamed.open /\ videoPlaybackFailed)
    /\ (last.created /\ ~streamed.open) => videoPlaybackFailed
    /\ ~(hasVideo /\ ~videoPlaybackFailed) => ~streamed.open

\* A round userpic whose video failed is painted with autoplay enabled and
\* no player is created.
C5_Witness ==
    /\ last.op = "draw" /\ last.path = "userpic"
    /\ hasVideo /\ videoPlaybackFailed /\ autoplayEnabled
    /\ ~last.created /\ ~streamed.open

\* C6: no callback body of a Photo or a Document runs after the element was
\* destroyed: neither the streaming update and error handlers nor the
\* open-photo and cancel-upload callbacks of the click handlers.
C6_NoCallbackAfterDestruction == last.ran => last.alive

\* The cancel link of a destroyed photo is clicked while the upload goes on
\* and nothing is called.
C6_Witness ==
    /\ ~photoAlive /\ uploading
    /\ last.op = "cancelClicked" /\ ~last.ran /\ last.delegate = "none"

\* C9 as stated: the media view and the streaming player of a Photo are
\* never both present.
C9_NeverBothParts == ~(dataMedia /\ streamed.open)

\* C9 as the code has it: a Photo has at most one media view and at most one
\* streaming player, and the player exists only while the media view does.
C9_PlayerOnlyWithMediaView == streamed.open => (photoAlive /\ dataMedia)

\* playAnimation created the player next to the media view.
C9_Witness ==
    /\ last.op = "playAnimation" /\ last.created
    /\ dataMedia /\ streamed.open

\* C4: whenever a paint selects the image anew, on the single-image path, the
\* round userpic path or the album path, it selects the highest available
\* tier in the order Large, Thumbnail, Small, inline, none.
C4_HighestTierSelected ==
    last.fresh =>
        /\ \A t \in Tiers : images[t] => last.tier >= t
        /\ last.tier # TierNone => images[last.tier]

\* C3: when the tiers were announced in non-decreasing order and each
\* announcement was followed by a repaint, the tier shown after a repaint
\* from the image cache or the album cache is not lower than the highest
\* tier available.
C3_ShownTierNotLower ==
    (/\ notified.ordered /\ ~notified.pending
     /\ last.op \in {"draw", "drawGrouped"}
     /\ last.path \in {"single", "grouped"})
        => \A t \in Tiers : images[t] => last.tier >= t

\* C10 as stated: a hit test of a point in the image area answers cancel
\* while uploading, else open when loaded, else cancel while loading, else
\* save.
C10_LinkByDataState ==
    (last.op \in {"textState", "getStateGrouped"} /\ last.inImage)
        => last.link = (IF uploading THEN "cancel"
                        ELSE IF images[TierLarge] THEN "open"
                        ELSE IF loading THEN "cancel"
                        ELSE "save")

\* C10 as the code has it: the same, unless textState found the point over
\* the bottom info of an uncaptioned photo that is the message's own media.
C10_LinkByDataStateOutsideInfo ==
    (last.op \in {"textState", "getStateGrouped"}
     /\ last.inImage /\ ~last.info)
        => last.link = (IF uploading THEN "cancel"
                        ELSE IF images[TierLarge] THEN "open"
                        ELSE IF loading THEN "cancel"
                        ELSE "save")

\* The photo is uploading and loaded at once and the hit test answers cancel.
C10_Witness ==
    /\ last.op = "textState" /\ last.inImage /\ ~last.info
    /\ uploading /\ images[TierLarge] /\ last.link = "cancel"

(***************************************************************************)
(* Properties of Part II.                                                  *)
(***************************************************************************)

\* No drag is active and every animation has finished.
AtRest ==
    /\ ~iconState.dragging /\ ~subiconState.dragging
    /\ ~iconState.animating /\ ~subiconState.animating
    /\ ~subiconsWidthAnimation.animating
    /\ due = {}

\* C1: once no drag is active and every animation has finished, the position
\* of each scroll axis lies between 0 and the axis's max, whatever refreshes,
\* resizes, selections, animation frames, mouse and wheel events came before.
C1_PositionWithinBounds ==
    AtRest =>
        /\ 0 <= iconState.x.cur /\ iconState.x.cur <= iconState.max
        /\ 0 <= subiconState.x.cur /\ subiconState.x.cur <= subiconState.max

\* What C7 expects of the wheel step that was handled last: the axis it
\* targeted, and the position of each axis before it.
WheelTargeted == IF footerLast.axis = "subicons" THEN subiconState
                 ELSE iconState
WheelTargetedBefore == IF footerLast.axis = "subicons" THEN footerLast.subiconX
                       ELSE footerLast.iconX
WheelOther == IF footerLast.axis = "subicons" THEN iconState
              ELSE subiconState
WheelOtherBefore == IF footerLast.axis = "subicons" THEN footerLast.iconX
                    ELSE footerLast.subiconX

\* C7: a wheel step leaves the targeted axis at its position minus the
\* step's own delta, cut to the range from 0 to max: a delta larger than the
\* room that is left puts the axis exactly on the bound, the position is
\* never outside the range, and the rest of the delta moves nothing else:
\* the other axis keeps its position, and the next step starts from the
\* position this one left with its own delta only.
C7_WheelClampsAndDropsExcess ==
    (footerLast.op = "wheel" /\ footerLast.handled) =>
        /\ WheelTargeted.x =
               LET next == Clamp(WheelTargetedBefore.cur - footerLast.delta,
                                 0, WheelTargeted.max)
               IN  IF next = WheelTargetedBefore.cur THEN WheelTargetedBefore
                   ELSE Value(next, next)
        /\ 0 <= WheelTargeted.x.cur
        /\ WheelTargeted.x.cur <= WheelTargeted.max
        /\ WheelOther.x = WheelOtherBefore

\* The wheel turned over the expanded All Emoji cell by more than the room
\* left on the strip of sub-icons: the sub-icons are at max, the strip of
\* icons has room left and did not move.
C7_Witness ==
    /\ footerLast.op = "wheel" /\ footerLast.handled
    /\ footerLast.axis = "subicons"
    /\ footerLast.subiconX.cur < subiconState.max
    /\ footerLast.subiconX.cur - footerLast.delta > subiconState.max
    /\ subiconState.x.cur = subiconState.max
    /\ iconState.x = footerLast.iconX
    /\ iconState.x.cur < iconState.max

\* The cells C8 names, as indexes from 0, for the id validated last.
ExactCells ==
    {i \in 0..(Len(icons) - 1) :
        \/ icons[i + 1] = footerLast.validated
        \/ (icons[i + 1] = FavedSetId /\ footerLast.validated = RecentSetId)}
AllEmojiCells ==
    {i \in 0..(Len(icons) - 1) : icons[i + 1] = AllEmojiSectionSetId}
FavedCells == {i \in 0..(Len(icons) - 1) : icons[i + 1] = FavedSetId}
IsCategoryButRecent ==
    /\ footerLast.validated >= EmojiSectionSetId(SectionPeople)
    /\ footerLast.validated <= EmojiSectionSetId(SectionSymbols)

\* C8: validateSelectedIcon selects the first cell whose id is the given id
\* (the Faved cell counts for the Recent stickers id); else, for the id of an
\* emoji category other than Recent, the All Emoji cell with the sub-icon
\* at the id minus the id of People; else the Faved cell; else cell 0.
C8_SelectionByPriority ==
    footerLast.validated # NotValidated =>
        IF ExactCells # {}
        THEN /\ iconState.selected \in ExactCells
             /\ \A i \in ExactCells : iconState.selected <= i
        ELSE IF IsCategoryButRecent /\ AllEmojiCells # {}
        THEN /\ iconState.selected \in AllEmojiCells
             /\ subiconState.selected =
                    footerLast.validated - EmojiSectionSetId(SectionPeople)
        ELSE IF FavedCells # {}
        THEN iconState.selected \in FavedCells
        ELSE iconState.selected = 0

\* The id of the Symbols category is validated on the emoji footer: the All
\* Emoji cell is selected with the last sub-icon.
C8_Witness ==
    /\ footerLast.op = "validateSelectedIcon"
    /\ footerLast.validated = EmojiSectionSetId(SectionSymbols)
    /\ icons = EmojiIcons
    /\ iconState.selected = 1
    /\ subiconState.selected = SectionSymbols - SectionPeople

(***************************************************************************)
(* Properties of Part III.                                                 *)
(***************************************************************************)

\* The bars that took sample i into their maximum.
BarsOfSample(i) == {b \in 1..Len(bars) : i \in bars[b].samples}
WaveformBarCount ==
    Min(waveform.availableWidth \div (msgWaveformBar + msgWaveformSkip),
        waveform.size)

\* C11 as stated: PaintWaveform draws min(W / (barWidth + skip), N) bars and
\* every sample is counted in the maximum of exactly one bar.
C11_EverySampleInOneBar ==
    bars # NotPainted =>
        /\ Len(bars) = WaveformBarCount
        /\ \A i \in 0..(waveform.size - 1) : Cardinality(BarsOfSample(i)) = 1

\* C11 as the code has it: PaintWaveform draws min(W / (barWidth + skip), N)
\* bars, and when the width has room for a bar at all every sample is counted
\* in the maximum of exactly one bar; with no room no bar is drawn and no
\* sample is counted.
C11_EverySampleInOneBarIfRoom ==
    bars # NotPainted =>
        /\ Len(bars) = WaveformBarCount
        /\ \A i \in 0..(waveform.size - 1) :
              Cardinality(BarsOfSample(i)) =
                  IF waveform.availableWidth
                         >= msgWaveformBar + msgWaveformSkip
                  THEN 1 ELSE 0

\* Eight samples are painted into three bars: a bar takes its maximum over
\* several samples, another over fewer.
C11_Witness ==
    /\ bars # NotPainted
    /\ waveform.size = MaxSamples
    /\ Len(bars) = 3
    /\ \E b \in 1..Len(bars) : Cardinality(bars[b].samples) >= 3
    /\ \E b \in 1..Len(bars) : Cardinality(bars[b].samples) < 3

(***************************************************************************)
(* Properties of the Document element.                                     *)
(***************************************************************************)
\* C12: while the voice track is this document in this message and neither
\* stopped nor stopping, textState returns the seek link for every point of
\* the waveform rectangle; while it is not, no point gives the seek link.
C12_SeekLinkInWaveformIffActive ==
    docLast.op = "textState" =>
        /\ (VoiceTrackHere(DocumentState) /\ docLast.inWaveform
                => docLast.link = "seekl")
        /\ (~VoiceTrackHere(DocumentState) => docLast.link # "seekl")

\* C18: a press on the seek link starts seeking at the proportion of the
\* press; every release ends seeking; only a release while seeking calls
\* finishSeeking, once, with the proportion kept last, and only if the voice
\* track is this message with a non-zero length; while seeking the waveform
\* and the status text show the kept proportion.
C18_SeekingFromPressToRelease ==
    /\ (docLast.op = "pressed" /\ activeLink = "seekl"
            => /\ voice.seeking
               /\ (~docLast.wasSeeking
                       => voice.seekingCurrent = voice.seekingStart))
    /\ (docLast.op = "released" => ~voice.seeking)
    /\ (docLast.op # "released" => docLast.finishSeeking = <<>>)
    /\ (docLast.op = "released" /\ docLast.finishSeeking # <<>>
            => /\ docLast.wasSeeking
               /\ docLast.finishSeeking = <<voice.seekingCurrent>>
               /\ IsThisTrack(player.Voice)
               /\ player.Voice.length # 0)
    /\ (docLast.op = "draw" /\ voice.seeking
            => /\ docLast.progress = voice.seekingCurrent
               /\ docLast.override =
                      VoiceStatusOverride(voice.seekingCurrent,
                                          voice.lastDurationMs))

\* A release commits the proportion the pointer was moved to, which is not
\* where the player is.
C18_Witness ==
    /\ docLast.op = "released"
    /\ docLast.wasSeeking
    /\ docLast.finishSeeking # <<>>
    /\ docLast.finishSeeking[1] \notin {FracZero, FracOne, voice.seekingStart}
    /\ ~voice.seeking

\* The document of this message is what the track of its kind plays or has
\* paused: the Voice track for a voice message, the Song track for an audio
\* file.
PlaybackActive ==
    \/ /\ data.type = "voice"
       /\ player.Voice.id = "this"
       /\ player.Voice.state \notin {"Stopped", "Stopping"}
    \/ /\ data.type = "song"
       /\ player.Song.id = "this"
       /\ player.Song.state \notin {"Stopped", "Stopping"}

PlaybackTrack == IF data.type = "voice" THEN player.Voice ELSE player.Song

\* C19: updateStatusText computes Failed for a failed transfer, else the
\* upload offset, else the load offset, else Loaded, else Ready, and
\* -1 - elapsed seconds instead exactly when this message is the active
\* playback; setStatusSize is called only when the value is not the cached
\* one, and the cached one is the value afterwards.
C19_StatusValueByPriority ==
    docLast.op = "draw" /\ docLast.icon # "none" =>
        /\ docLast.computed =
               IF PlaybackActive
               THEN -1 - (PlaybackTrack.position \div PlaybackTrack.frequency)
               ELSE IF data.status \in {"FileDownloadFailed",
                                        "FileUploadFailed"}
               THEN FileStatusSizeFailed
               ELSE IF data.uploading THEN data.uploadOffset
               ELSE IF data.loading THEN data.loadOffset
               ELSE IF data.loaded THEN FileStatusSizeLoaded
               ELSE FileStatusSizeReady
        /\ (docLast.statusSet => docLast.computed # docLast.before)
        /\ statusSize = docLast.computed

\* A paint of a message that plays while its file still loads: the status
\* becomes the negative elapsed time, not the offset.
C19_Witness ==
    /\ docLast.op = "draw"
    /\ docLast.statusSet
    /\ docLast.computed < -1
    /\ data.loading
    /\ PlaybackActive

\* C20 as stated: the centre icon of a document without a thumbnail is the
\* first of waiting (waiting for the album), cancel (loading or uploading),
\* pause (showPause), play / image / document (loaded or playable),
\* download.
C20_IconByPriority ==
    docLast.op = "draw" /\ docLast.icon # "none" /\ ~components.thumbed =>
        docLast.icon =
            IF data.waitingForAlbum THEN "waiting"
            ELSE IF data.loading \/ data.uploading THEN "cancel"
            ELSE IF docLast.showPause THEN "pause"
            ELSE IF data.loaded \/ data.canBePlayed
            THEN (IF data.canBePlayed THEN "play"
                  ELSE IF data.isImage THEN "image" ELSE "document")
            ELSE "download"

\* C20, amended: loading or uploading gives the cancel icon unless the
\* download is shown in the corner.
C20_IconByPriorityOutsideCorner ==
    docLast.op = "draw" /\ docLast.icon # "none" /\ ~components.thumbed =>
        docLast.icon =
            IF data.waitingForAlbum THEN "waiting"
            ELSE IF (data.loading \/ data.uploading)
                    /\ ~(/\ data.type = "song"
                         /\ data.allowsForward
                         /\ data.canBeStreamed
                         /\ ~data.inappPlaybackFailed)
            THEN "cancel"
            ELSE IF docLast.showPause THEN "pause"
            ELSE IF data.loaded \/ data.canBePlayed
            THEN (IF data.canBePlayed THEN "play"
                  ELSE IF data.isImage THEN "image" ELSE "document")
            ELSE "download"

\* A song whose download is shown in the corner is painted while it loads
\* and plays: the centre shows the pause icon.
C20_Witness ==
    /\ docLast.op = "draw"
    /\ data.loading
    /\ Document_downloadInCorner(DocumentState)
    /\ docLast.icon = "pause"

\* C13 as stated: a Photo creates and starts its streaming player only if
\* the video can be played and video autoplay is enabled.
C13_PlayerOnlyWithAutoplay ==
    last.created /\ streamed.open =>
        videoCanBePlayed(MediaState) /\ videoAutoplayEnabled(MediaState)

\* C13, amended: the player is created only if the video can be played; on
\* the paint path also only if video autoplay is enabled.
C13_PlayerOnlyIfPlayable ==
    last.created /\ streamed.open =>
        /\ videoCanBePlayed(MediaState)
        /\ (last.op = "draw" => videoAutoplayEnabled(MediaState))

\* playAnimation started the player of a playable video with autoplay off.
C13_Witness ==
    /\ last.op = "playAnimation" /\ last.created /\ streamed.open
    /\ videoCanBePlayed(MediaState) /\ ~videoAutoplayEnabled(MediaState)

(***************************************************************************)
(* Properties of EditCaptionBox.                                           *)
(***************************************************************************)
\* The list the dropped or pasted data gave may replace the prepared one.
Replaceable ==
    /\ isAllowedEditMedia
    /\ boxLast.list.error = "None"
    /\ boxLast.list.files # <<>>
    /\ (albumType = "None"
        \/ canBeInAlbumType(boxLast.list.files[1], albumType))

\* C14: dropped or pasted data replaces the prepared list only if media
\* editing is allowed, the data gave a non-empty list without error and its
\* first file is allowed in the album type; otherwise setPreparedList
\* returns false and the prepared list and the preview stay as they were.
C14_RejectedDataChangesNothing ==
    boxLast.op \in {"drop", "paste"} =>
        /\ (boxLast.result \/ preparedList # boxLast.before
                \/ boxLast.rebuilt => Replaceable)
        /\ (~Replaceable
                => /\ ~boxLast.result
                   /\ preparedList = boxLast.before
                   /\ ~boxLast.rebuilt)

\* A file that does not fit the album is dropped on a box that holds an
\* accepted file already: the accepted file stays.
C14_Witness ==
    /\ boxLast.op = "drop"
    /\ isAllowedEditMedia
    /\ boxLast.list.error = "None" /\ boxLast.list.files # <<>>
    /\ ~Replaceable
    /\ ~boxLast.result /\ boxLast.toast
    /\ preparedList = boxLast.before /\ preparedList.files # <<>>

\* C15: in every state iconInfo(i) has the left, width and visible values
\* enumerateIcons emits for index i, subiconInfo(k) those enumerateSubicons
\* emits for k, and both give the default descriptor for an index that is
\* not enumerated.
SameCell(info, emitted) ==
    /\ info.left = emitted.left
    /\ info.width = emitted.width
    /\ info.visible = emitted.visible

SubiconCount == SectionSymbols - SectionPeople + 1

C15_InfoEqualsEnumeration ==
    LET f == FooterState
    IN  /\ \A i \in 0..(Len(icons) - 1) :
               /\ enumerateIcons(f)[i + 1].index = i
               /\ SameCell(iconInfo(f, i), enumerateIcons(f)[i + 1])
        /\ \A k \in 0..(SubiconCount - 1) :
               /\ enumerateSubicons(f)[k + 1].index = k
               /\ SameCell(subiconInfo(f, k), enumerateSubicons(f)[k + 1])
        /\ \A i \in {-1, Len(icons), Len(icons) + 1} :
               iconInfo(f, i) = [index |-> 0, left |-> 0, adjustedLeft |-> 0,
                                 width |-> 0, visible |-> FALSE]
        /\ \A k \in {-1, SubiconCount} :
               subiconInfo(f, k) = [index |-> 0, left |-> 0,
                                    adjustedLeft |-> 0, width |-> 0,
                                    visible |-> FALSE]

\* The All Emoji cell is between its two widths and a cell right of it is
\* scrolled out of view: the cells differ in left, width and visible.
C15_Witness ==
    /\ Len(icons) >= 2
    /\ subiconsWidthAnimation.animating
    /\ \E i \in 1..(Len(icons) - 1) :
           /\ iconInfo(FooterState, i).left > i * singleWidth
           /\ ~iconInfo(FooterState, i).visible

\* The four values Photo::validateImageCache compares, as the cache holds
\* them.
ImageCacheKey(c) == <<c.w, c.h, c.radius, c.corners, c.blurred>>

\* C16: a paint on the single-image path runs prepareImageCache exactly when
\* the size, the radius, the corners or the blurred flag it asks for differ
\* from those of the cache (which unloadHeavyPart empties), and leaves the
\* cache as it is otherwise.
C16_CachePreparedOncePerKey ==
    [][(last'.op = "draw" /\ last'.path = "single")
          => /\ last'.fresh
                    <=> ImageCacheKey(imageCache') # ImageCacheKey(imageCache)
             /\ (~last'.fresh => imageCache' = imageCache)]_vars

\* A repaint with the four values unchanged found the image of an earlier
\* paint and kept it.
C16_Witness ==
    /\ last.op = "draw" /\ last.path = "single" /\ ~last.fresh
    /\ imageCache.tier # TierNone
    /\ imageCache.w > 0


\* C17: a paint with the player locked asks the player for a frame only when
\* no frozen frame is held, and otherwise redraws the held one; it leaves a
\* frozen frame held.  markFrameShown is called only by a paint that is
\* neither locked nor paused.  A new video frame arriving while a frozen
\* frame is held causes no repaint.  A paint with the player unlocked drops
\* the frozen frame.
C17_FrozenFrameWhileLocked ==
    [][LET held == streamed.open /\ streamed.frozenFrame
           painted == last'.op = "draw" /\ last'.path = "frame"
       IN  /\ (painted /\ last'.locked) =>
                  /\ last'.frame = (IF held THEN "frozen" ELSE "request")
                  /\ streamed'.frozenFrame
           /\ last'.shown => (painted /\ ~last'.locked /\ ~last'.paused)
           /\ (last'.op = "frame" /\ held) => ~last'.repaint
           /\ (painted /\ ~last'.locked) => ~streamed'.frozenFrame]_vars
\* A later locked paint redrew the held frame without asking for a new one.
C17_Witness ==
    /\ last.op = "draw" /\ last.path = "frame" /\ last.locked
    /\ last.frame = "frozen" /\ streamed.frozenFrame

\* C21: for every width, caption and bubble flag, textState of a Photo and of
\* a Document hands a point to the caption (for a voice document also to the
\* transcription) with the origin and the width draw paints that text with,
\* and reports the point as upon the text exactly when it lies in the
\* rectangle the text was painted in.
QuietIn ==
    [autoLoad |-> FALSE, valid |-> TRUE, ready |-> FALSE, locked |-> FALSE,
     paused |-> FALSE]
SameTextPlace(painted, hit, px, py) ==
    /\ hit.textAt # <<>> =>
           /\ painted # <<>>
           /\ hit.textAt = <<painted[1], painted[2], painted[3]>>
    /\ hit.upon <=>
           /\ painted # <<>>
           /\ Contains(painted[1], painted[2], painted[3], painted[4], px, py)
C21_PhotoCaption ==
    \A lay \in Layouts :
        LET dr == Photo_draw(MediaState, lay, QuietIn).last
        IN  \A pt \in ElementPoints(lay.width, lay.height) :
               SameTextPlace(dr.captionAt,
                             Photo_textState(MediaState, lay, pt[1], pt[2],
                                             FALSE).last,
                             pt[1], pt[2])
C21_DocumentCaption ==
    \A w \in CaptionWidths, flags \in BubbleFlags, mode \in DocumentModes :
        LET dr == Document_draw(DocumentBegin(DocumentState, "draw"), w,
                                flags, mode, FALSE, FALSE).last
            h == Document_height(DocumentState, flags, mode)
        IN  \A pt \in ElementPoints(w, h) :
               LET ts == Document_textState(
                             DocumentBegin(DocumentState, "textState"),
                             pt[1], pt[2], w, flags, mode, rtl).last
               IN  SameTextPlace(IF ts.text = "transcribe"
                                 THEN dr.transcribeAt ELSE dr.captionAt,
                                 ts, pt[1], pt[2])
C21_CaptionHitWherePainted == C21_PhotoCaption /\ C21_DocumentCaption
\* A point of the caption of a voice message with a transcription was
\* hit-tested and found upon the caption.
C21_Witness ==
    /\ docLast.op = "textState" /\ docLast.text = "caption" /\ docLast.upon
    /\ components.voice /\ voice.transcribeLength > 0

\* C22: a Document of a voice message has Voice and neither Named nor
\* Thumbed, any other Document has Named and no Voice; Thumbed comes only
\* with Named and only for an asset with a thumbnail that is no song and has
\* no executable name; parentTextUpdated and countOptimalSize change no
\* component but Captioned, which is gone after them when the caption is
\* empty or the element is neither the parent's media nor part of an album.
C22_ComponentsFollowAsset ==
    /\ IF data.type = "voice"
       THEN components.voice /\ ~components.named /\ ~components.thumbed
       ELSE components.named /\ ~components.voice
    /\ components.thumbed =>
           /\ components.named /\ data.hasThumbnail
           /\ data.type # "song" /\ ~data.executableName
    /\ docLast.op \in {"parentTextUpdated", "countOptimalSize"} =>
           /\ [components EXCEPT !.captioned = FALSE]
                  = [docLast.was EXCEPT !.captioned = FALSE]
           /\ (docLast.captionEmpty \/ (~docLast.ownMedia /\ ~docLast.groupId))
                  => ~components.captioned
\* countOptimalSize dropped the caption of a file with a thumbnail that is
\* shown inside another media.
C22_Witness ==
    /\ docLast.op = "countOptimalSize" /\ docLast.was.captioned
    /\ ~components.captioned /\ components.thumbed

\* C23: on each scroll axis, whenever the animation is not in progress
\* (animationStart is zero or the timer is stopped), the current value of x
\* is x's target.
InProgress(state) == state.animationStart /\ state.animating
C23_RestingAtTarget ==
    /\ ~InProgress(iconState) => iconState.x.cur = iconState.x.to
    /\ ~InProgress(subiconState) => subiconState.x.cur = subiconState.x.to
\* A drag moved the inner axis while the outer one was on its way.
C23_Witness ==
    /\ footerLast.op = "mouseMoveEvent"
    /\ subiconState.dragging /\ subiconState.x.cur > 0
    /\ ~InProgress(subiconState)
    /\ InProgress(iconState) /\ iconState.x.cur # iconState.x.to

\* A scroll axis right after its frame callback: the animation goes on only
\* if it was started, animations are enabled and its time is not over;
\* otherwise the timer is stopped, animationStart is clear, and x, selectionX
\* and selectionWidth are at their targets.
TickDone(state) ==
    IF state.animating
    THEN /\ state.animationStart
         /\ ~animationsDisabled
         /\ state.elapsed < stickerIconMove
    ELSE /\ ~state.animationStart
         /\ state.x.cur = state.x.to
         /\ state.selectionX.cur = state.selectionX.to
         /\ state.selectionWidth.cur = state.selectionWidth.to

FrameOps == {"frame", "widthFrame", "iconsFrame", "subiconsFrame"}

\* C24: a tick of a started scroll animation whose time is over sets x,
\* selectionX and selectionWidth to their targets, clears animationStart and
\* stops the animation; a tick with a smaller fraction keeps it running; with
\* animations disabled the first tick finishes; a tick without a started
\* animation leaves the values at rest. Hence an animation in progress under
\* the frame clock eventually stops, unless other events take over. (That
\* no tick ever ends otherwise is written as a leads-to of FALSE, so that
\* the whole formula is one liveness formula.)
C24_AnimationFinishes ==
    /\ (footerLast.op = "iconsFrame" /\ ~TickDone(iconState)) ~> FALSE
    /\ (footerLast.op = "subiconsFrame" /\ ~TickDone(subiconState)) ~> FALSE
    /\ (InProgress(iconState) /\ footerLast.op \in FrameOps)
           ~> (~InProgress(iconState) \/ footerLast.op \notin FrameOps)
    /\ (InProgress(subiconState) /\ footerLast.op \in FrameOps)
           ~> (~InProgress(subiconState) \/ footerLast.op \notin FrameOps)
C24_Witness ==
    /\ footerLast.op = "iconsFrame"
    /\ ~animationsDisabled
    /\ stickerIconMove = MaxDuration
    /\ ~iconState.animating /\ ~iconState.animationStart
    /\ iconState.x.cur = iconState.x.to /\ iconState.x.cur > 0
    /\ iconState.selectionX.cur > 0

\* The selected cell of the outer strip on the screen, twice its centre, and
\* twice the centre of the viewport of the icons.
SelectedCentre2 ==
    LET info == iconInfo(FooterState, iconState.selected)
    IN  2 * (iconsLeft(FooterState) - iconState.x.cur + info.left)
            + info.width
ViewportCentre2 ==
    iconsLeft(FooterState) + footerWidth - iconsRight(FooterState)
\* setSelectedIcon has completed and nothing else is in motion.
SelectionCompleted ==
    /\ Len(icons) # 0
    /\ footerLast.op \in {"validateSelectedIcon", "iconsFrame"}
    /\ ~iconState.animating /\ ~subiconsWidthAnimation.animating
    /\ due = {}

\* C25: after setSelectedIcon has completed, a position that is not at 0 or
\* max leaves the selected cell centred in the viewport of the icons, up to
\* one pixel.
C25_SelectedCentred ==
    (SelectionCompleted /\ iconState.x.cur > 0
         /\ iconState.x.cur < iconState.max)
        => Abs(SelectedCentre2 - ViewportCentre2) <= 2

\* One step of the footer under the mouse. A drag begins only in a
\* mouseMoveEvent, for a pressed cell, at the drag distance from the press
\* point, on the inner axis for the All Emoji cell and on the outer axis for
\* any other; a cell becomes the pressed one only by a press on it, and that
\* press records the offsets of both axes as the drag origins.
DragBegins ==
    LET outer == ~iconState.dragging /\ iconState.dragging'
        inner == ~subiconState.dragging /\ subiconState.dragging'
        onAllEmoji == icons[pressed.index + 1] = AllEmojiSectionSetId
    IN  /\ (outer \/ inner) =>
               /\ footerLast'.op = "mouseMoveEvent"
               /\ pressed.kind = "Icon" /\ pressed' = pressed
               /\ manhattanLength(iconsMousePos', iconsMouseDown)
                      >= startDragDistance
               /\ inner <=> onAllEmoji
               /\ outer <=> ~onAllEmoji
        /\ (pressed'.kind = "Icon" /\ pressed' # pressed) =>
               /\ footerLast'.op = "mousePressEvent"
               /\ pressed' = selected'
        /\ (footerLast'.op = "mousePressEvent" /\ pressed'.kind = "Icon") =>
               /\ iconsMouseDown' = iconsMousePos'
               /\ iconState'.draggingStartX = iconState.x.cur
               /\ subiconState'.draggingStartX = subiconState.x.cur
        /\ (footerLast'.op = "mousePressEvent"
                /\ selected' \in {OverSearch, OverSettings}) =>
               /\ pressed' = pressed
               /\ iconState'.dragging = iconState.dragging
               /\ subiconState'.dragging = subiconState.dragging

\* C26: dragging is activated only after a left-button press on a cell and a
\* move of at least the drag distance from the press point, on the inner
\* axis if the pressed cell is the All Emoji cell and on the outer axis
\* otherwise, never on both; a press on Search or Settings starts no drag;
\* the press records each axis's offset as its drag origin.
C26_DragActivation == [][DragBegins]_vars
C26_Witness ==
    /\ footerLast.op = "mouseMoveEvent"
    /\ pressed.kind = "Icon"
    /\ icons[pressed.index + 1] = AllEmojiSectionSetId
    /\ subiconState.dragging /\ ~iconState.dragging
    /\ subiconState.draggingStartX > 0

\* One step of user input on the inner axis: a mouse move, a release or a
\* wheel event changes the offset of the sub-icon strip only if the All
\* Emoji cell is expanded.
InnerInput ==
    (/\ footerLast'.op \in {"mouseMoveEvent", "mouseReleaseEvent", "wheel"}
     /\ subiconState'.x # subiconState.x)
        => /\ subiconsExpanded
           /\ iconState.selected >= 0
           /\ icons[iconState.selected + 1] = AllEmojiSectionSetId

\* C27: drag and wheel change the offset of the inner axis only while the
\* All Emoji cell is selected and expanded; while it is collapsed, dragging
\* or wheeling over the All Emoji cell never changes the inner offset.
C27_InnerOnlyWhileExpanded == [][InnerInput]_vars
\* The same for the wheel alone.
C27_WheelOnlyWhileExpanded ==
    [][footerLast'.op = "wheel" => InnerInput]_vars

\* Some cell of the list has the validated id.
MatchedExactly ==
    \E k \in 1..Len(icons) : icons[k] = footerLast.validated

C29_SameSizes ==
    docLast.op = "sizeForGrouping" => docLast.size = docLast.optimal

\* C29: for every width w, sizeForGrouping(w) and sizeForGroupingOptimal(w)
\* return the same height; the width of sizeForGroupingOptimal(w) is w and
\* the width of sizeForGrouping(w) is maxWidth(), so the two sizes are
\* identical exactly when w = maxWidth().
C29_SameHeights ==
    docLast.op = "sizeForGrouping" =>
        /\ docLast.size[2] = docLast.optimal[2]
        /\ docLast.optimal[1] = docLast.asked
        /\ docLast.size[1] = docLast.maxWidth
        /\ docLast.size = docLast.optimal
               <=> docLast.asked = docLast.maxWidth
C29_Witness ==
    /\ docLast.op = "sizeForGrouping"
    /\ components.captioned /\ components.thumbed
    /\ docLast.asked < docLast.maxWidth
    /\ docLast.size[2] = docLast.optimal[2]
    /\ docLast.size[2] > 5

C30_TakenOnlyIfAllowed ==
    (boxLast.result /\ preparedList.files # <<>>) => isAllowedEditMedia

\* C31: after every mouse release neither axis is dragging, and the pointer
\* moves that follow without a press change no scroll offset, also when the
\* icon list was refreshed or emptied during the drag. Released is the
\* state a release leaves; every event but a press keeps it, and a pointer
\* move made in it changes the offset of neither axis.
Released ==
    ~iconState.dragging /\ ~subiconState.dragging /\ pressed.kind # "Icon"
ReleaseEndsDrag == footerLast'.op = "mouseReleaseEvent" => Released'
ReleasedUntilPress ==
    (Released /\ footerLast'.op # "mousePressEvent") => Released'
ReleasedMoveKeepsOffsets ==
    (Released /\ footerLast'.op = "mouseMoveEvent") =>
        /\ iconState'.x = iconState.x
        /\ subiconState'.x = subiconState.x
C31_ReleaseEndsDrag ==
    [][ReleaseEndsDrag /\ ReleasedUntilPress /\ ReleasedMoveKeepsOffsets]_vars

\* C32: the offset finishDragging commits on the release is the offset
\* checkDragging set for the same pointer position during the drag, in a
\* left-to-right and in a right-to-left layout: a release at the position
\* of the last press or move changes the offset of neither axis.
ReleaseInPlace ==
    /\ footerLast.op \in {"mousePressEvent", "mouseMoveEvent"}
    /\ footerLast'.op = "mouseReleaseEvent"
    /\ iconsMousePos' = iconsMousePos
ReleaseKeepsOffsets ==
    ReleaseInPlace =>
        /\ iconState'.x = iconState.x
        /\ subiconState'.x = subiconState.x
C32_ReleaseCommitsDraggedOffset == [][ReleaseKeepsOffsets]_vars

\* C33: whenever the animation of the outer axis is not in progress, the
\* selection indicator has reached its targets: the current values of
\* selectionX and selectionWidth are their targets, also after a drag or a
\* wheel step interrupted a running selection animation.
C33_IndicatorAtTarget ==
    ~InProgress(iconState) =>
        /\ iconState.selectionX.cur = iconState.selectionX.to
        /\ iconState.selectionWidth.cur = iconState.selectionWidth.to

\* C34: for every set id, isInstalledLocally(id) is true whenever an
\* InstallStickerSet request for the id is in flight, however installs and
\* answers interleave; after a request failed with no other request for the
\* id in flight, it is false and the local install is undone.
InstalledWhileInFlight ==
    \A setId \in StickerSetIds :
        installRequests[setId] > 0 =>
            LocalStickersManager_isInstalledLocally(ManagerState, setId)
UndoneAfterFail ==
    (managerLast.op = "installFail"
     /\ installRequests[managerLast.setId] = 0) =>
        /\ ~LocalStickersManager_isInstalledLocally(ManagerState,
                                                    managerLast.setId)
        /\ managerLast.setId \notin locallyInstalled
C34_InstalledWhileInFlight == InstalledWhileInFlight /\ UndoneAfterFail

\* C35: the box has at most one EditCaption request in flight: save() while
\* a request is pending changes nothing; the done and the fail handler both
\* reset the pending marker to zero, so that a later save() sends again;
\* the destruction of the box cancels the pending request, and no handler
\* runs after it.
OneRequestInFlight ==
    /\ Cardinality(editRequests) <= 1
    /\ saveRequestId # 0 => editRequests = {saveRequestId}
    /\ boxLast.op \in {"saveDone", "saveFail"} => saveRequestId = 0
    /\ ~boxAlive => editRequests = {}
BoxFields ==
    <<isAllowedEditMedia, albumType, preparedList, content, photoMedia,
      saveRequestId, editRequests, requestCounter, boxError, fieldError,
      boxClosed, boxAlive>>
SaveWhilePendingIsNoOp ==
    (saveRequestId # 0 /\ boxLast'.op = "save") => UNCHANGED BoxFields
SaveSendsAgain ==
    (/\ boxLast.op \in {"saveDone", "saveFail"}
     /\ boxLast'.op = "save" /\ boxLast'.itemExists
     /\ boxLast'.textLength <= captionLengthCurrent
     /\ preparedList.files = <<>>)
        => /\ boxLast'.sent = "editCaption"
           /\ saveRequestId' # 0 /\ saveRequestId' \in editRequests'
NoHandlerAfterDestroy ==
    ~boxAlive => UNCHANGED <<BoxFields, boxLast>>
C35_OneRequestInFlight ==
    [][/\ OneRequestInFlight'
       /\ SaveWhilePendingIsNoOp
       /\ SaveSendsAgain
       /\ NoHandlerAfterDestroy]_vars
\* After a request failed the box sent a second one, and a save made while
\* that one was pending did nothing.
C35_Witness ==
    /\ boxLast.op = "save" /\ boxLast.pending
    /\ requestCounter = 2 /\ saveRequestId = 2 /\ editRequests = {2}
    /\ boxAlive
\* The box was destroyed while a request was pending.
C35_Cancelled ==
    /\ boxLast.op = "destroy" /\ boxLast.pending
    /\ ~boxAlive /\ editRequests = {} /\ saveRequestId = 0

\* C39: save() sends no request and keeps the box open when the message no
\* longer exists (an error text is set) or the caption is longer than the
\* limit; a prepared file that is not allowed in the album of the item
\* gives an error and nothing is sent; a failed caption edit closes the box
\* only for MESSAGE_NOT_MODIFIED, otherwise the box stays open and shows an
\* error.
SaveSentNothing ==
    /\ boxLast'.sent = "none"
    /\ editRequests' = editRequests
    /\ boxClosed' = boxClosed
SavedFileNotInAlbum ==
    /\ preparedList.files # <<>> /\ albumType # "None"
    /\ ~canBeInAlbumType(preparedList.files[1], albumType)
FailedEdit ==
    boxLast'.op = "saveFail" /\ boxAlive =>
        IF boxLast'.failure = "MESSAGE_NOT_MODIFIED"
        THEN boxClosed'
        ELSE /\ boxClosed' = boxClosed
             /\ boxError' # "" \/ fieldError'
\* as stated: whatever else holds when save() is called
SaveRejectsAlways ==
    boxLast'.op = "save" =>
        /\ ~boxLast'.itemExists
               => SaveSentNothing /\ boxError' = "deleted"
        /\ boxLast'.textLength > captionLengthCurrent => SaveSentNothing
        /\ SavedFileNotInAlbum => SaveSentNothing /\ boxError' # ""
SaveRejectsInOrder ==
    boxLast'.op = "save" =>
        /\ ~boxLast'.itemExists
               => /\ SaveSentNothing
                  /\ saveRequestId = 0 => boxError' = "deleted"
        /\ boxLast'.textLength > captionLengthCurrent => SaveSentNothing
        /\ SavedFileNotInAlbum
               => /\ SaveSentNothing
                  /\ (/\ saveRequestId = 0 /\ boxLast'.itemExists
                      /\ boxLast'.textLength <= captionLengthCurrent)
                         => boxError' = "album"
ClickedSetId ==
    IF icons[pressed.index + 1] = AllEmojiSectionSetId
    THEN EmojiSectionSetId(SectionPeople + pressed.subindex)
    ELSE icons[pressed.index + 1]
ChosenOnlyByClick ==
    footerLast'.fired > 0 =>
        /\ footerLast'.op = "mouseReleaseEvent"
        /\ footerLast'.fired = 1
        /\ icons # <<>>
        /\ pressed.kind = "Icon"
        /\ selected' = pressed
        /\ ~iconState.dragging /\ ~subiconState.dragging
        /\ footerLast'.setChosen = ClickedSetId
        /\ pressed' = OverNone
PressedOnlyByPress ==
    pressed' # pressed /\ pressed' # OverNone =>
        /\ footerLast'.op = "mousePressEvent"
        /\ pressed' = selected'
        /\ pressed'.kind = "Icon"
        /\ iconsMouseDown' = iconsMousePos'
PressChoosesNothing ==
    footerLast'.op = "mousePressEvent" =>
        /\ footerLast'.fired = 0
        /\ selected' \in {OverSearch, OverSettings} => pressed' = pressed
C37_ChosenOnlyByClick ==
    [][ChosenOnlyByClick /\ PressedOnlyByPress /\ PressChoosesNothing]_vars
C37_Witness ==
    /\ footerLast.op = "mouseReleaseEvent"
    /\ footerLast.fired = 1
    /\ footerLast.setChosen = EmojiSectionSetId(SectionPeople + 1)

\* C38: a click on sub-icon k of the All Emoji cell emits an id which,
\* passed back to validateSelectedIcon on the same icon list (it holds the
\* All Emoji cell and no cell with that id), selects the All Emoji cell
\* with sub-selection k, in every mode of animation (the call is made in
\* the state right after the click; ClickRoundTripSteps speaks of the
\* validation steps that follow a click).
ClickedSubicon ==
    /\ footerLast.op = "mouseReleaseEvent"
    /\ footerLast.fired = 1
    /\ selected.kind = "Icon"
    /\ icons[selected.index + 1] = AllEmojiSectionSetId
    /\ \A i \in 1..Len(icons) : icons[i] # footerLast.setChosen
ChosenValidated(animations) ==
    validateSelectedIcon(FooterBegin(FooterState, "validateSelectedIcon"),
                         footerLast.setChosen, animations)
Selects(f, index, subindex) ==
    /\ f.iconState.selected = index
    /\ f.subiconState.selected = subindex
ClickRoundTripStep ==
    /\ ClickedSubicon
    /\ footerLast'.op = "validateSelectedIcon"
    /\ footerLast'.validated = footerLast.setChosen
    => /\ iconState'.selected = selected.index
       /\ subiconState'.selected = selected.subindex
ClickRoundTripSteps == [][ClickRoundTripStep]_vars
C38_ClickRoundTrip ==
    ClickedSubicon =>
        \A animations \in ValidateIconAnimations :
            Selects(ChosenValidated(animations),
                    selected.index, selected.subindex)
C38_Witness ==
    /\ ClickedSubicon
    /\ selected.subindex = SectionSymbols - SectionPeople
    /\ footerLast.setChosen = EmojiSectionSetId(SectionSymbols)

\* C36: for a voice message and any pointer x inside the waveform, the
\* proportion textState computes when the press starts equals the one
\* updatePressed computes for the same x once the press has started the
\* seeking, in every layout mode, with the transcribe button or without;
\* both lie in [0, 1].
SameFraction(a, b) == a.n * b.d = b.n * a.d
InUnit(a) == a.d > 0 /\ 0 <= a.n /\ a.n <= a.d
SeekPressedAt(x, mode) ==
    Document_clickHandlerPressedChanged(
        Document_textState(DocumentBegin(DocumentState, "textState"),
                           x, 2, SameSeekWidth,
                           [top |-> TRUE, bottom |-> TRUE], mode, rtl),
        "seekl", TRUE)
SameProportion(pressedAt, x) ==
    pressedAt.last.link = "seekl" /\ pressedAt.voice.seeking =>
        /\ InUnit(pressedAt.voice.seekingStart)
        /\ InUnit(Document_updatePressed(pressedAt, x, SameSeekWidth)
                      .voice.seekingCurrent)
        /\ SameFraction(pressedAt.voice.seekingStart,
                        Document_updatePressed(pressedAt, x, SameSeekWidth)
                            .voice.seekingCurrent)
C36_SameProportion ==
    components.voice /\ ~voice.seeking =>
        \A x \in SameSeekXs, mode \in SameSeekModes :
            SameProportion(SeekPressedAt(x, mode), x)

\* C40: the id of every section from Recent to Symbols maps back to the
\* section, no two sections share an id, and the id of the All Emoji cell,
\* every id below the id of Recent and every id above the id of Symbols
\* map to no section; said of every id validateSelectedIcon was given.
SectionsOfId(id) == {s \in Sections : EmojiSectionSetId(s) = id}
SectionIdRoundTrip(id) ==
    /\ \A s \in SectionsOfId(id) : SetIdEmojiSection(id) = s
    /\ Cardinality(SectionsOfId(id)) <= 1
    /\ (\/ id = AllEmojiSectionSetId
        \/ id < RecentEmojiSectionSetId
        \/ id > EmojiSectionSetId(SectionSymbols))
           => SetIdEmojiSection(id) = NoSection
C40_SectionIdRoundTrip ==
    footerLast.op = "validateSelectedIcon"
        => SectionIdRoundTrip(footerLast.validated)
C40_Witness ==
    /\ footerLast.op = "validateSelectedIcon"
    /\ footerLast.validated = EmojiSectionSetId(SectionSymbols)
    /\ SetIdEmojiSection(footerLast.validated) = SectionSymbols
    /\ subiconState.selected = SectionSymbols - SectionPeople
====
